------------------------ MODULE AuthorityRecoveryProofs ------------------------
(***************************************************************************)
(* Proofs about AuthorityRecovery, for any number of workers and auctions, *)
(* any number of events and of faults, and any interleaving.               *)
(***************************************************************************)
EXTENDS AuthorityRecovery, SequenceTheorems, TLAPS

-----------------------------------------------------------------------------
(* The inductive invariant, in parts. *)

RedisState == [keys : {"none", "whole", "broken"}, log : Seq(Event),
               status : {"NONE", "PENDING", "ACTIVE", "ENDED"}]

Phases == {"idle", "inspect", "claim", "fence", "drain", "extend", "list", "next", "delete",
           "install", "reconcile", "renew", "ready", "unfence"}
Triggers == {"NONE", "FULL_DATA_LOSS", "PARTIAL_STATE_LOSS", "MANIFEST_MISMATCH"}
Cycling == [step : Phases, ready : BOOLEAN, trigger : Triggers, epoch : Nat, todo : SUBSET Products,
            targets : SUBSET Products, product : SUBSET Products, seed : RedisState]

\* One of the n events accepted so far: its place in the auction is not beyond its
\* place among all of them.
Made(e, n) == e.at <= e.id /\ e.id <= n
\* A log whose events are numbered from one.
Sound(l, n) == \A i \in DOMAIN l : l[i].at = i /\ Made(l[i], n)
Coherent(s, n) == Sound(s.log, n) /\ (s.keys = "none" => s.log = <<>>)

RedisInv ==
  /\ auth \in [Products -> RedisState] /\ stream \in [Products -> Seq(Event)]
  /\ fence \in BOOLEAN /\ auctionFence \subseteq Products
  /\ locks \in [Products -> Workers \cup {Nobody, Gone, Api}] /\ manifest \in Nat \cup {NoManifest}
  /\ \A p \in Products : /\ Coherent(auth[p], events)
                         /\ \A i \in DOMAIN stream[p] : Made(stream[p][i], events)
RowsInv ==
  /\ log \in [Products -> Seq(Event)] /\ \A p \in Products : Sound(log[p], events)
  /\ rows \subseteq Products /\ begun \subseteq rows /\ creating \subseteq rows
  /\ lastEpoch \in [Products -> Nat]
  /\ control \in [state : {"READY", "RECOVERING", "FAILED_RETRYING"}, epoch : Nat,
                  owner : Workers \cup {Nobody, Gone}, leased : BOOLEAN]
  /\ control.owner = Nobody => ~control.leased
ActorsInv ==
  /\ worker \in [Workers -> Cycling] /\ \A w \in Workers : Coherent(worker[w].seed, events)
  /\ inflight \in [Workers -> [Products -> Event \cup {NoEvent}]]
  /\ \A w \in Workers, p \in Products : inflight[w][p] # NoEvent => Made(inflight[w][p], events)
  /\ seeds \in [Products -> RedisState] /\ \A p \in Products : Coherent(seeds[p], events)
CountsInv ==
  /\ trial \in Trials /\ events \in 0..trial.events /\ faults \in 0..trial.left
  /\ lost \subseteq Products /\ owed \subseteq Products /\ needless \subseteq [product : Products, fenced : BOOLEAN]
  \* Epochs grow.
  /\ \A p \in Products : lastEpoch[p] <= control.epoch
  /\ \A w \in Workers : worker[w].epoch <= control.epoch
  \* Without a creation there is no bootstrap by the API.
  /\ trial.created = {} => rows = trial.existing /\ creating = {} /\ \A p \in Products : seeds[p] = NoState

TypeInv == RedisInv /\ RowsInv /\ ActorsInv /\ CountsInv

\* Every event that Redis holds is projected or still in the stream.
Kept == \A p \in Products : Range(auth[p].log) \subseteq Range(log[p]) \cup Range(stream[p])

NoLoss == trial.faults \cap {"all", "state"} = {}

\* The auctions a recovery concerns.
Scope(w) == IF Global(w) THEN Products ELSE worker[w].targets
\* No mutation of the auction can come.
Shut(p) == ~Unfenced(p) \/ (trial.created = {} /\ auth[p].keys = "none")
Still(p) == Shut(p) /\ stream[p] = <<>>
\* The auctions that the worker has drained and not rebuilt yet.
Drained(w) ==
  IF worker[w].step \in {"extend", "list"} THEN Scope(w)
  ELSE IF worker[w].step \in {"next", "delete", "install"} THEN worker[w].todo
  ELSE IF worker[w].step \in {"reconcile", "renew"} THEN worker[w].todo \ worker[w].product ELSE {}
Rebuilding(w) == worker[w].step \in {"next", "delete", "install", "reconcile", "renew"}

\* A worker that does not run rests.
OthersRest ==
  \A w \in Workers \ trial.workers : worker[w] = Resting /\ \A p \in Products : inflight[w][p] = NoEvent
DrainOf(w) ==
  /\ worker[w].step = "drain" => \A p \in Scope(w) : Shut(p)
  /\ \A p \in Drained(w) : Still(p)
  /\ worker[w].product \subseteq (IF Rebuilding(w) THEN worker[w].todo ELSE {})
  /\ worker[w].step \in {"ready", "unfence"} => worker[w].todo = {}
  /\ worker[w].step \in {"delete", "install"} => worker[w].seed.keys = "whole"
  /\ worker[w].step = "install" => \A p \in worker[w].product : auth[p].keys = "none"
DrainInv == \A w \in Workers : DrainOf(w)

\* The events of an auction are those projected, then those in the stream; Redis has them all.
Follows(p) ==
  /\ \A i \in DOMAIN stream[p] : stream[p][i].at = Len(log[p]) + i
  /\ auth[p].keys # "none" => auth[p].log = log[p] \o stream[p]
FlowInv ==
  /\ \A p \in Products : Follows(p)
  /\ \A w \in Workers, p \in Products :
       /\ worker[w].step \in {"delete", "install"} /\ p \in worker[w].product => worker[w].seed.log = log[p]
       /\ inflight[w][p] # NoEvent => stream[p] # <<>> /\ inflight[w][p] = Head(stream[p])

\* An auction that has events and no state, though nothing was lost, is being rebuilt.
Hollow(p) == auth[p].keys = "none" /\ (log[p] # <<>> \/ stream[p] # <<>>)
\* A fence keeps it shut, and a later recovery will find it.
Guarded(p) == p \in auctionFence \/ (fence /\ p \in activeProductIds)
HollowOf(p) ==
  /\ Hollow(p) => stream[p] = <<>> /\ Guarded(p)
  /\ log[p] = <<>> => seeds[p].log = <<>>
Fencing(w) == worker[w].step \notin {"idle", "inspect", "claim", "fence"}
RebuildOf(w) ==
  /\ Global(w) => worker[w].targets = {}
  /\ Fencing(w) => (IF Global(w) THEN fence ELSE worker[w].targets \subseteq auctionFence)
  /\ Rebuilding(w) => \A p \in Drained(w) : Guarded(p)
  /\ Rebuilding(w) \/ worker[w].step \in {"ready", "unfence"} =>
       \A p \in Scope(w) : Hollow(p) => p \in worker[w].todo \/ (Global(w) /\ p \in auctionFence)
  /\ worker[w].step = "renew" => \A p \in worker[w].product : ~Hollow(p)
HollowInv == NoLoss => (\A p \in Products : HollowOf(p)) /\ (\A w \in Workers : RebuildOf(w))

AloneInv == Alone /\ Unraced => OthersRest /\ DrainInv
CoverInv == Alone /\ Unraced /\ "inflight" \notin trial.faults => FlowInv /\ HollowInv

\* An event may follow the first n of a log: the last of them did not end the auction.
Open(l, n) == n = 0 \/ (n \in DOMAIN l /\ l[n].kind # "CLOSE")
\* The n-th event is in a stream, before position j, and does not end the auction.
Coming(s, n, j) == \E i \in 1..j - 1 : s[i].at = n /\ s[i].kind # "CLOSE"
Trading(s) == s.status \in {"PENDING", "ACTIVE"}
EndOf(p) ==
  /\ \A j \in DOMAIN stream[p] : Open(log[p], stream[p][j].at - 1) \/ Coming(stream[p], stream[p][j].at - 1, j)
  /\ Trading(auth[p]) =>
       Open(log[p], Len(auth[p].log)) \/ Coming(stream[p], Len(auth[p].log), Len(stream[p]) + 1)
  /\ Trading(seeds[p]) => Open(log[p], Len(seeds[p].log))
HeldOf(w, p) ==
  /\ inflight[w][p] # NoEvent => Open(log[p], inflight[w][p].at - 1)
  /\ worker[w].step \in {"delete", "install"} /\ p \in worker[w].product =>
       (Trading(worker[w].seed) => Open(log[p], Len(worker[w].seed.log)))
EndInv == \A p \in Products : EndOf(p) /\ \A w \in Workers : HeldOf(w, p)

\* What an inspection is about to look at includes every active auction.
Watched == trial.created = {} => \A w \in Workers : At(w, "inspect") => activeProductIds \subseteq worker[w].todo

\* The auctions that a total loss hit and that are still to be extended: until they
\* are, Redis stays empty and every recovery on its way is one of a total loss.
Due == owed \cap activeProductIds
OwedOf(w) ==
  /\ worker[w].step \in {"idle", "inspect", "claim", "fence", "drain", "extend"}
  /\ worker[w].step \in {"claim", "fence", "drain", "extend"} => worker[w].trigger = "FULL_DATA_LOSS"
  /\ worker[w].step \in {"fence", "drain", "extend"} => \A p \in Due : lastEpoch[p] < worker[w].epoch
OwedRow == control.state # "READY" => \A p \in Due : lastEpoch[p] < control.epoch
OwedInv ==
  /\ "all" \notin trial.faults => owed = {}
  /\ Due # {} => (\A p \in Products : auth[p].keys = "none") /\ (\A w \in Workers : OwedOf(w)) /\ OwedRow
LossInv == Unraced => Watched /\ OwedInv

Steady == Alone /\ trial.created = {} /\ "stall" \notin trial.faults
\* A recovery owns its row, and the lock of the auction it rebuilds.
Owning == {"fence", "drain", "extend", "list", "next", "delete", "install", "reconcile", "renew", "ready"}
OwnOf(w) ==
  worker[w].step \in Owning =>
    control = [state |-> "RECOVERING", owner |-> w, leased |-> TRUE, epoch |-> worker[w].epoch]
LockOf(p) ==
  /\ locks[p] \in {Nobody, Gone} \cup
       {w \in Workers : worker[w].step \in {"delete", "install"} /\ p \in worker[w].product}
  /\ locks[p] = Gone => control.owner = Gone /\ control.leased
OwnInv == (\A w \in Workers : OwnOf(w)) /\ \A p \in Products : LockOf(p)
\* Without part of its state, and not for a loss it has not been extended for.
Broken(p) ==
  /\ p \in activeProductIds \ lost /\ auth[p].keys # "whole"
  /\ \A w \in Workers : worker[w].step = "install" => p \notin worker[w].product
\* It is left by a recovery of this very epoch, and every one since then rebuilds it.
Rebuilds(w, p) ==
  /\ worker[w].step \in {"claim", "fence", "drain", "extend", "list"} => p \in Scope(w)
  /\ Rebuilding(w) => p \in worker[w].todo
  /\ worker[w].step \in {"reconcile", "renew"} => p \notin worker[w].product
  /\ worker[w].step # "ready"
BrokenOf(p) ==
  Broken(p) => /\ lastEpoch[p] = control.epoch /\ control.state # "READY"
               /\ \A w \in Workers : Rebuilds(w, p)
\* What a recovery of a total loss takes for lost.
FullOf(w) ==
  worker[w].step \in {"claim", "fence", "drain", "extend"} /\ worker[w].trigger = "FULL_DATA_LOSS" =>
    \A p \in activeProductIds : auth[p].keys # "whole" \/ p \in auctionFence \/ p \in lost
BrokenInv ==
  /\ \A p \in Products : BrokenOf(p)
  /\ \A w \in Workers : FullOf(w)
  /\ \A e \in needless : e.fenced
ExtendInv == Steady => OwnInv /\ BrokenInv

-----------------------------------------------------------------------------
(* The values the operations write. *)

LEMMA EventIs ==
  ASSUME trial.events \in Nat
  PROVE  NoEvent \notin Event
BY DEF NoEvent, Event

LEMMA NoStateIs == NoState \in RedisState /\ Coherent(NoState, events) /\ NoState.log = <<>>
BY DEF NoState, RedisState, Sound, Coherent

LEMMA RestingIs == Resting \in Cycling /\ Resting.seed = NoState
BY NoStateIs DEF Resting, Cycling, Phases, Triggers

LEMMA TrialIs ==
  ASSUME TypeInv
  PROVE  trial \in Trial
BY RecoveryAssumption DEF TypeInv, CountsInv

LEMMA StatusIs ==
  ASSUME NEW p
  PROVE  RowStatus(p) \in {"PENDING", "ACTIVE", "ENDED"} /\ OpeningStatus(p) \in {"PENDING", "ACTIVE"}
BY DEF RowStatus, OpeningStatus

LEMMA SeedIs ==
  ASSUME TypeInv, NEW p \in Products
  PROVE  /\ Seed(p) \in RedisState /\ Coherent(Seed(p), events) /\ Seed(p) # NoState
         /\ Seed(p).keys = "whole" /\ Seed(p).log = log[p]
         /\ Trading(Seed(p)) <=> RowStatus(p) # "ENDED"
<1>1. log[p] \in Seq(Event) /\ Sound(log[p], events)
  BY DEF TypeInv, RowsInv
<1> QED
  BY <1>1, StatusIs DEF Seed, RedisState, NoState, Trading, Coherent

-----------------------------------------------------------------------------
(* The steps of a cycle, as they change what the worker is doing. *)

ControlRow == [state : {"READY", "RECOVERING", "FAILED_RETRYING"}, epoch : Nat,
               owner : Workers \cup {Nobody, Gone}, leased : BOOLEAN]

LEMMA ReleasedIs ==
  ASSUME TypeInv, NEW s \in {"READY", "FAILED_RETRYING"}
  PROVE  /\ Released(s) \in ControlRow /\ Released(s).epoch = control.epoch /\ Released(s).state = s
         /\ Released(s).owner = Nobody /\ ~Released(s).leased
<1>1. control \in ControlRow
  BY DEF TypeInv, RowsInv, ControlRow
<1> QED
  BY <1>1 DEF Released, ControlRow

\* The worker w goes on as r says, and the others stay.
Becomes(w, r) ==
  worker' \in [Workers -> Cycling] /\ worker'[w] = r /\ \A v \in Workers \ {w} : worker'[v] = worker[v]

LEMMA BecomesIt ==
  ASSUME NEW w \in Workers, TypeInv, NEW r \in Cycling, worker' = [worker EXCEPT ![w] = r]
  PROVE  Becomes(w, r)
BY DEF Becomes, TypeInv, ActorsInv

LEMMA ActiveIs ==
  ASSUME TypeInv
  PROVE  activeProductIds \subseteq Products
BY DEF activeProductIds, TypeInv, RowsInv

LEMMA ObserveMoves ==
  ASSUME NEW w \in Workers, TypeInv, Observe(w)
  PROVE  Becomes(w, [worker[w] EXCEPT !.step = "inspect", !.todo = activeProductIds,
                                      !.epoch = control.epoch, !.ready = control.state = "READY"])
<1> DEFINE r == [worker[w] EXCEPT !.step = "inspect", !.todo = activeProductIds,
                                  !.epoch = control.epoch, !.ready = control.state = "READY"]
<1>1. worker[w] \in Cycling /\ control.epoch \in Nat /\ (control.state = "READY") \in BOOLEAN
  BY DEF TypeInv, ActorsInv, RowsInv
<1>2. r \in Cycling
  BY <1>1, ActiveIs DEF Cycling, Phases
<1>3. worker' = [worker EXCEPT ![w] = r]
  BY DEF Observe
<1> QED
  BY <1>2, <1>3, BecomesIt

LEMMA GotoMoves ==
  ASSUME NEW w \in Workers, TypeInv, NEW s \in Phases, Goto(w, s)
  PROVE  Becomes(w, [worker[w] EXCEPT !.step = s])
<1> DEFINE r == [worker[w] EXCEPT !.step = s]
<1>1. worker[w] \in Cycling
  BY DEF TypeInv, ActorsInv
<1>2. r \in Cycling
  BY <1>1 DEF Cycling
<1> QED
  BY <1>2, BecomesIt DEF Goto

LEMMA GaveUp ==
  ASSUME NEW w \in Workers, TypeInv, NEW recorded \in BOOLEAN, GiveUp(w, recorded)
  PROVE  /\ Becomes(w, Resting) /\ UNCHANGED <<rows, log, lastEpoch>>
         /\ control' = control
              \/ (control.owner = w /\ control' = Released("FAILED_RETRYING"))
BY BecomesIt, RestingIs DEF GiveUp

LEMMA InspectMoves ==
  ASSUME NEW w \in Workers, TypeInv, Inspect(w)
  PROVE  LET known == worker[w].todo
             missing == {p \in known : Missing(p)}
             healthy == worker[w].ready /\ ~fence /\ missing = {}
         IN  \/ healthy /\ manifest' = worker[w].epoch /\ Becomes(w, Resting)
             \/ /\ UNCHANGED manifest
                /\ Becomes(w, [Resting EXCEPT !.step = "claim", !.trigger = Trigger(known),
                     !.targets = IF Trigger(known) = "PARTIAL_STATE_LOSS" THEN missing ELSE {}])
<1> DEFINE missing == {p \in worker[w].todo : Missing(p)}
           r == [Resting EXCEPT !.step = "claim", !.trigger = Trigger(worker[w].todo),
                   !.targets = IF Trigger(worker[w].todo) = "PARTIAL_STATE_LOSS" THEN missing ELSE {}]
<1>1. worker[w].todo \subseteq Products
  BY DEF TypeInv, ActorsInv, Cycling
<1>2. Trigger(worker[w].todo) \in Triggers
  BY DEF Trigger, Triggers
<1>3. r \in Cycling
  BY <1>1, <1>2, RestingIs DEF Cycling, Phases
<1>4. CASE UNCHANGED manifest /\ worker' = [worker EXCEPT ![w] = r]
  BY <1>3, <1>4, BecomesIt
<1>5. CASE /\ worker[w].ready /\ ~fence /\ missing = {} /\ manifest' = worker[w].epoch
           /\ worker' = [worker EXCEPT ![w] = Resting]
  BY <1>5, RestingIs, BecomesIt
<1> QED
  BY <1>4, <1>5 DEF Inspect

LEMMA ClaimMoves ==
  ASSUME NEW w \in Workers, TypeInv, Claim(w)
  PROVE  \/ Becomes(w, Resting) /\ UNCHANGED control
         \/ /\ ~control.leased \/ control.owner = w
            /\ control' = [state |-> "RECOVERING", owner |-> w, leased |-> TRUE, epoch |-> ClaimedEpoch]
            /\ Becomes(w, [worker[w] EXCEPT !.step = "fence", !.epoch = ClaimedEpoch])
<1> DEFINE r == [worker[w] EXCEPT !.step = "fence", !.epoch = ClaimedEpoch]
<1>1. worker[w] \in Cycling /\ ClaimedEpoch \in Nat
  BY DEF TypeInv, ActorsInv, RowsInv, ClaimedEpoch
<1>2. r \in Cycling
  BY <1>1 DEF Cycling, Phases
<1>3. CASE control.leased /\ control.owner # w
  BY <1>3, BecomesIt, RestingIs DEF Claim
<1>4. CASE ~(control.leased /\ control.owner # w)
  <2>0. /\ control' = [state |-> "RECOVERING", owner |-> w, leased |-> TRUE, epoch |-> ClaimedEpoch]
        /\ worker' = [worker EXCEPT ![w].step = "fence", ![w].epoch = control'.epoch]
    BY <1>4 DEF Claim
  <2>1. worker' = [worker EXCEPT ![w] = r]
    BY <2>0
  <2>2. Becomes(w, r)
    BY <1>2, <2>1, BecomesIt
  <2> QED
    BY <1>4, <2>2 DEF Claim
<1> QED
  BY <1>3, <1>4

LEMMA ListMoves ==
  ASSUME NEW w \in Workers, TypeInv, List(w)
  PROVE  \/ /\ Renewed(w)
            /\ Becomes(w, [worker[w] EXCEPT !.step = "next",
                              !.todo = IF Global(w) THEN activeProductIds ELSE worker[w].targets])
         \/ LeaseLost(w)
<1> DEFINE r == [worker[w] EXCEPT !.step = "next",
                   !.todo = IF Global(w) THEN activeProductIds ELSE worker[w].targets]
<1>1. worker[w] \in Cycling
  BY DEF TypeInv, ActorsInv
<1>2. r \in Cycling
  BY <1>1, ActiveIs DEF Cycling, Phases
<1>3. CASE LeaseLost(w)
  BY <1>3
<1>4. CASE ~LeaseLost(w)
  <2>1. worker' = [worker EXCEPT ![w] = r] /\ Renewed(w)
    BY <1>4 DEF List
  <2>2. Becomes(w, r)
    BY <1>2, <2>1, BecomesIt
  <2> QED
    BY <2>1, <2>2
<1> QED
  BY <1>3, <1>4

LEMMA ReadSeedMoves ==
  ASSUME NEW w \in Workers, NEW p \in Products, TypeInv, ReadSeed(w, p)
  PROVE  \/ /\ locks[p] = Nobody
            /\ Becomes(w, [worker[w] EXCEPT !.step = "delete", !.product = {p}, !.seed = Seed(p)])
         \/ /\ locks[p] # Nobody
            /\ Becomes(w, [worker[w] EXCEPT !.step = "reconcile", !.product = {p}, !.seed = NoState])
<1> DEFINE r == [worker[w] EXCEPT !.step = IF locks[p] = Nobody THEN "delete" ELSE "reconcile",
                   !.product = {p}, !.seed = IF locks[p] = Nobody THEN Seed(p) ELSE NoState]
<1>1. worker[w] \in Cycling
  BY DEF TypeInv, ActorsInv
<1>2. r \in Cycling
  BY <1>1, SeedIs, NoStateIs DEF Cycling, Phases
<1>3. Becomes(w, r)
  BY <1>2, BecomesIt DEF ReadSeed
<1> QED
  BY <1>3

LEMMA RenewMoves ==
  ASSUME NEW w \in Workers, TypeInv, Renew(w)
  PROVE  \/ /\ Renewed(w)
            /\ Becomes(w, [worker[w] EXCEPT !.step = "next", !.todo = @ \ worker[w].product,
                                            !.product = {}, !.seed = NoState])
         \/ LeaseLost(w)
<1> DEFINE r == [worker[w] EXCEPT !.step = "next", !.todo = @ \ worker[w].product,
                                 !.product = {}, !.seed = NoState]
<1>1. worker[w] \in Cycling
  BY DEF TypeInv, ActorsInv
<1>2. r \in Cycling
  BY <1>1, NoStateIs DEF Cycling, Phases
<1>3. CASE LeaseLost(w)
  BY <1>3
<1>4. CASE ~LeaseLost(w)
  <2>1. worker' = [worker EXCEPT ![w] = r] /\ Renewed(w)
    BY <1>4 DEF Renew
  <2>2. Becomes(w, r)
    BY <1>2, <2>1, BecomesIt
  <2> QED
    BY <2>1, <2>2
<1> QED
  BY <1>3, <1>4

-----------------------------------------------------------------------------
(* Every operation keeps the types. *)

LEMMA EventsStay ==
  ASSUME UNCHANGED trial
  PROVE  Event' = Event /\ RedisState' = RedisState /\ Cycling' = Cycling
<1>1. Event' = Event
  BY DEF Event
<1>2. RedisState' = RedisState
  BY <1>1 DEF RedisState
<1>3. Cycling' = Cycling
  BY <1>2 DEF Cycling
<1> QED
  BY <1>1, <1>2, <1>3

LEMMA RedisStays ==
  ASSUME TypeInv, UNCHANGED <<redis, trial, events>>
  PROVE  RedisInv'
BY EventsStay DEF TypeInv, RedisInv, redis

LEMMA RowsStay ==
  ASSUME TypeInv, UNCHANGED <<rows, log, lastEpoch, begun, creating, trial, events>>,
         control' \in ControlRow, control'.owner = Nobody => ~control'.leased
  PROVE  RowsInv'
BY DEF TypeInv, RowsInv, Sound, Made, Event, ControlRow

LEMMA ActorsStay ==
  ASSUME TypeInv, UNCHANGED <<worker, inflight, seeds, trial, events>>
  PROVE  ActorsInv'
BY EventsStay DEF TypeInv, ActorsInv

LEMMA ActorsMove ==
  ASSUME TypeInv, NEW w \in Workers, NEW r, Becomes(w, r), Coherent(r.seed, events),
         UNCHANGED <<inflight, seeds, trial, events>>
  PROVE  ActorsInv'
<1>1. worker' \in [Workers -> Cycling] /\ \A v \in Workers : worker'[v] = IF v = w THEN r ELSE worker[v]
  BY DEF Becomes
<1>2. \A v \in Workers : Coherent(worker'[v].seed, events)
  BY <1>1 DEF TypeInv, ActorsInv
<1> QED
  BY <1>1, <1>2, EventsStay DEF TypeInv, ActorsInv

LEMMA CountsStay ==
  ASSUME TypeInv, UNCHANGED <<history, faults, events, lastEpoch, control, worker, rows, creating, seeds>>
  PROVE  CountsInv'
BY DEF TypeInv, CountsInv, history

LEMMA CountsMove ==
  ASSUME TypeInv, NEW w \in Workers, NEW r, Becomes(w, r),
         control' \in ControlRow, control.epoch <= control'.epoch, r.epoch <= control'.epoch,
         UNCHANGED <<history, faults, events, lastEpoch, rows, creating, seeds>>
  PROVE  CountsInv'
<1>1. control.epoch \in Nat /\ control'.epoch \in Nat /\ \A p \in Products : lastEpoch[p] \in Nat
  BY DEF TypeInv, RowsInv, ControlRow
<1>2. \A v \in Workers : worker[v].epoch \in Nat /\ worker[v].epoch <= control.epoch
  BY DEF TypeInv, ActorsInv, CountsInv, Cycling
<1>3. \A v \in Workers : worker'[v] \in Cycling /\ (v # w => worker'[v] = worker[v]) /\ worker'[w] = r
  BY DEF Becomes
<1>4. \A v \in Workers : worker'[v].epoch <= control'.epoch
  BY <1>1, <1>2, <1>3 DEF Cycling
<1>5. \A p \in Products : lastEpoch'[p] <= control'.epoch
  BY <1>1 DEF TypeInv, CountsInv
<1> QED
  BY <1>4, <1>5 DEF TypeInv, CountsInv, history

LEMMA ControlIs ==
  ASSUME TypeInv
  PROVE  /\ control \in ControlRow /\ (control.owner = Nobody => ~control.leased)
         /\ \A w \in Workers : worker[w] \in Cycling /\ Coherent(worker[w].seed, events) /\ worker[w].epoch <= control.epoch
BY DEF TypeInv, RowsInv, ActorsInv, CountsInv, ControlRow

\* A step of a cycle that writes nothing but the control row and Redis.
LEMMA CycleTypes ==
  ASSUME TypeInv, NEW w \in Workers, NEW r, Becomes(w, r), Coherent(r.seed, events), RedisInv',
         control' \in ControlRow, control'.owner = Nobody => ~control'.leased,
         control.epoch <= control'.epoch, r.epoch <= control'.epoch,
         UNCHANGED <<rows, log, lastEpoch, history, environment, faults>>
  PROVE  TypeInv'
<1>1. RowsInv'
  BY RowsStay DEF history, environment
<1>2. ActorsInv'
  BY ActorsMove DEF history, environment
<1>3. CountsInv'
  BY CountsMove DEF environment
<1> QED
  BY <1>1, <1>2, <1>3 DEF TypeInv

LEMMA ObserveTypes ==
  ASSUME TypeInv, NEW w \in Workers, Observe(w)
  PROVE  TypeInv'
<1> DEFINE r == [worker[w] EXCEPT !.step = "inspect", !.todo = activeProductIds,
                                  !.epoch = control.epoch, !.ready = control.state = "READY"]
<1>1. Becomes(w, r)
  BY ObserveMoves
<1>2. r.seed = worker[w].seed /\ r.epoch = control.epoch /\ control.epoch \in Nat
  BY ControlIs DEF Cycling, ControlRow
<1>3. RedisInv' /\ control' = control
  BY RedisStays DEF Observe, history, environment, postgres
<1> HIDE DEF r
<1> QED
  BY <1>1, <1>2, <1>3, CycleTypes, ControlIs DEF Observe, postgres

LEMMA InspectTypes ==
  ASSUME TypeInv, NEW w \in Workers, Inspect(w)
  PROVE  TypeInv'
<1> DEFINE known == worker[w].todo
           found == [Resting EXCEPT !.step = "claim", !.trigger = Trigger(known),
                       !.targets = IF Trigger(known) = "PARTIAL_STATE_LOSS" THEN {p \in known : Missing(p)} ELSE {}]
<1>0. /\ Becomes(w, Resting) \/ Becomes(w, found)
      /\ found.seed = NoState /\ found.epoch = 0 /\ Resting.seed = NoState /\ Resting.epoch = 0
  BY InspectMoves DEF Resting
<1> HIDE DEF found
<1>1. PICK r : Becomes(w, r) /\ r.seed = NoState /\ r.epoch = 0
  BY <1>0
<1>2. manifest' \in Nat \cup {NoManifest}
  BY ControlIs DEF Inspect, TypeInv, RedisInv, Cycling
<1>3. RedisInv'
  BY <1>2, EventsStay DEF Inspect, TypeInv, RedisInv, history, environment
<1>4. control' = control /\ control.epoch \in Nat
  BY ControlIs DEF Inspect, postgres, ControlRow
<1> QED
  BY <1>1, <1>3, <1>4, CycleTypes, ControlIs, NoStateIs DEF Inspect, postgres

LEMMA ClaimTypes ==
  ASSUME TypeInv, NEW w \in Workers, Claim(w)
  PROVE  TypeInv'
<1>1. RedisInv'
  BY RedisStays DEF Claim, history, environment
<1>2. control.epoch \in Nat /\ ClaimedEpoch \in Nat /\ control.epoch <= ClaimedEpoch
  BY ControlIs DEF ControlRow, ClaimedEpoch
<1>3. CASE Becomes(w, Resting) /\ UNCHANGED control
  BY <1>1, <1>2, <1>3, CycleTypes, ControlIs, NoStateIs, RestingIs DEF Claim, Resting
<1>4. ASSUME control' = [state |-> "RECOVERING", owner |-> w, leased |-> TRUE, epoch |-> ClaimedEpoch],
             Becomes(w, [worker[w] EXCEPT !.step = "fence", !.epoch = ClaimedEpoch])
      PROVE  TypeInv'
  <2> DEFINE r == [worker[w] EXCEPT !.step = "fence", !.epoch = ClaimedEpoch]
  <2>1. r.seed = worker[w].seed /\ r.epoch = ClaimedEpoch /\ Coherent(r.seed, events)
    BY ControlIs DEF Cycling
  <2>2. control' \in ControlRow /\ control'.epoch = ClaimedEpoch /\ control'.owner # Nobody
    BY <1>2, <1>4, RecoveryAssumption DEF ControlRow
  <2> HIDE DEF r
  <2>3. Becomes(w, r)
    BY <1>4 DEF r
  <2> QED
    BY <1>1, <1>2, <2>1, <2>2, <2>3, CycleTypes DEF Claim
<1> QED
  BY <1>3, <1>4, ClaimMoves

\* The steps that leave PostgreSQL alone and go on to step s.
LEMMA GotoTypes ==
  ASSUME TypeInv, NEW w \in Workers, NEW s \in Phases, Goto(w, s), RedisInv',
         UNCHANGED <<postgres, history, environment, faults>>
  PROVE  TypeInv'
<1> DEFINE r == [worker[w] EXCEPT !.step = s]
<1>1. Becomes(w, r)
  BY GotoMoves
<1>2. r.seed = worker[w].seed /\ r.epoch = worker[w].epoch /\ Coherent(r.seed, events)
  BY ControlIs DEF Cycling
<1>3. control.epoch \in Nat /\ r.epoch <= control.epoch
  BY <1>2, ControlIs DEF ControlRow
<1> HIDE DEF r
<1> QED
  BY <1>1, <1>2, <1>3, CycleTypes, ControlIs DEF postgres

LEMMA GiveUpTypes ==
  ASSUME TypeInv, NEW w \in Workers, NEW recorded \in BOOLEAN, GiveUp(w, recorded), RedisInv',
         UNCHANGED <<history, environment, faults>>
  PROVE  TypeInv'
<1>1. control.epoch \in Nat
  BY ControlIs DEF ControlRow
<1>2. /\ control' \in ControlRow /\ (control'.owner = Nobody => ~control'.leased)
      /\ control'.epoch = control.epoch
  BY GaveUp, ControlIs, ReleasedIs
<1>3. Becomes(w, Resting) /\ UNCHANGED <<rows, log, lastEpoch>> /\ Resting.epoch = 0
  BY GaveUp DEF Resting
<1> QED
  BY <1>1, <1>2, <1>3, CycleTypes, NoStateIs, RestingIs

LEMMA RenewedIs ==
  ASSUME TypeInv, NEW w \in Workers, Renewed(w)
  PROVE  /\ control' \in ControlRow /\ control'.owner = w /\ control'.epoch = control.epoch
         /\ control'.state = "RECOVERING" /\ control'.leased /\ worker[w].epoch = control.epoch
         /\ control.owner = w /\ control.state = "RECOVERING"
         /\ control'.owner # Nobody /\ UNCHANGED <<rows, log, lastEpoch>>
BY ControlIs, RecoveryAssumption DEF Renewed, ControlRow

LEMMA FenceTypes ==
  ASSUME TypeInv, NEW w \in Workers, Fence(w)
  PROVE  TypeInv'
<1>1. worker[w].targets \subseteq Products
  BY ControlIs DEF Cycling
<1>2. fence' \in BOOLEAN /\ auctionFence' \subseteq Products
  BY <1>1 DEF Fence, TypeInv, RedisInv, Global
<1>3. RedisInv'
  BY <1>2, EventsStay DEF Fence, TypeInv, RedisInv, history, environment
<1> QED
  BY <1>3, GotoTypes DEF Fence, Phases

LEMMA DrainTypes ==
  ASSUME TypeInv, NEW w \in Workers, Drain(w)
  PROVE  TypeInv'
<1>1. RedisInv'
  BY RedisStays DEF Drain, history, environment
<1>2. CASE Goto(w, "extend") /\ UNCHANGED postgres
  BY <1>1, <1>2, GotoTypes DEF Drain, Phases
<1>3. CASE LeaseLost(w)
  BY <1>1, <1>3, GiveUpTypes DEF Drain, LeaseLost
<1>4. CASE Renewed(w) /\ UNCHANGED worker
  <2>1. ActorsInv'
    BY <1>4, ActorsStay DEF Drain, history, environment
  <2>2. RowsInv'
    BY <1>4, RenewedIs, RowsStay DEF Drain, history, environment
  <2>3. CountsInv'
    BY <1>4, RenewedIs DEF Drain, history, environment, TypeInv, CountsInv
  <2> QED
    BY <1>1, <2>1, <2>2, <2>3 DEF TypeInv
<1> QED
  BY <1>2, <1>3, <1>4 DEF Drain

LEMMA ExtendTypes ==
  ASSUME TypeInv, NEW w \in Workers, Extend(w)
  PROVE  TypeInv'
<1>1. RedisInv'
  BY RedisStays DEF Extend, history, environment
<1>2. worker[w].epoch \in Nat /\ worker[w].epoch <= control.epoch /\ control.epoch \in Nat
  BY ControlIs DEF Cycling, ControlRow
<1>3. lastEpoch' \in [Products -> Nat] /\ \A p \in Products : lastEpoch'[p] <= control.epoch
  BY <1>2 DEF Extend, TypeInv, RowsInv, CountsInv
<1>4. RowsInv'
  BY <1>3, EventsStay DEF Extend, TypeInv, RowsInv, history, environment
<1> DEFINE r == [worker[w] EXCEPT !.step = "list"]
<1>5. Becomes(w, r)
  BY GotoMoves DEF Extend, Phases
<1>6. r.epoch = worker[w].epoch /\ r.seed = worker[w].seed
  BY ControlIs DEF Cycling
<1> HIDE DEF r
<1>7. ActorsInv'
  BY <1>5, <1>6, ActorsMove, ControlIs DEF Extend, environment
<1>8. \A v \in Workers : worker'[v].epoch <= control'.epoch
  BY <1>5, <1>6, ControlIs DEF Becomes, Extend
<1>9. needless' \subseteq [product : Products, fenced : BOOLEAN]
  <2>1. Interrupted(w) \subseteq Products
    BY ActiveIs DEF Interrupted
  <2>2. ASSUME NEW p \in Interrupted(w)
        PROVE  [product |-> p, fenced |-> p \in auctionFence] \in [product : Products, fenced : BOOLEAN]
    BY <2>1
  <2>3. {[product |-> p, fenced |-> p \in auctionFence] : p \in Interrupted(w) \ lost}
          \subseteq [product : Products, fenced : BOOLEAN]
    BY <2>2
  <2> QED
    BY <2>3 DEF Extend, TypeInv, CountsInv
<1>10. CountsInv'
  BY <1>3, <1>8, <1>9 DEF Extend, TypeInv, CountsInv, environment
<1> QED
  BY <1>1, <1>4, <1>7, <1>10 DEF TypeInv

LEMMA ListTypes ==
  ASSUME TypeInv, NEW w \in Workers, List(w)
  PROVE  TypeInv'
<1>1. RedisInv'
  BY RedisStays DEF List, history, environment
<1>2. CASE LeaseLost(w)
  BY <1>1, <1>2, GiveUpTypes DEF List, LeaseLost
<1>3. CASE ~LeaseLost(w)
  <2> DEFINE r == [worker[w] EXCEPT !.step = "next",
                     !.todo = IF Global(w) THEN activeProductIds ELSE worker[w].targets]
  <2>1. Renewed(w) /\ Becomes(w, r)
    BY <1>3, ListMoves
  <2>2. r.epoch = worker[w].epoch /\ r.seed = worker[w].seed /\ Coherent(r.seed, events) /\ control.epoch \in Nat
    BY ControlIs DEF Cycling, ControlRow
  <2> HIDE DEF r
  <2> QED
    BY <1>1, <2>1, <2>2, CycleTypes, RenewedIs DEF List
<1> QED
  BY <1>2, <1>3

LEMMA RenewTypes ==
  ASSUME TypeInv, NEW w \in Workers, Renew(w)
  PROVE  TypeInv'
<1>1. RedisInv'
  BY RedisStays DEF Renew, history, environment
<1>2. CASE LeaseLost(w)
  BY <1>1, <1>2, GiveUpTypes DEF Renew, LeaseLost
<1>3. CASE ~LeaseLost(w)
  <2> DEFINE r == [worker[w] EXCEPT !.step = "next", !.todo = @ \ worker[w].product,
                                   !.product = {}, !.seed = NoState]
  <2>1. Renewed(w) /\ Becomes(w, r)
    BY <1>3, RenewMoves
  <2>2. r.epoch = worker[w].epoch /\ r.seed = NoState /\ Coherent(r.seed, events) /\ control.epoch \in Nat
    BY ControlIs, NoStateIs DEF Cycling, ControlRow
  <2> HIDE DEF r
  <2> QED
    BY <1>1, <2>1, <2>2, CycleTypes, RenewedIs DEF Renew
<1> QED
  BY <1>2, <1>3

LEMMA ReadSeedTypes ==
  ASSUME TypeInv, NEW w \in Workers, NEW p \in Products, ReadSeed(w, p)
  PROVE  TypeInv'
<1>1. locks' \in [Products -> Workers \cup {Nobody, Gone, Api}]
  BY DEF ReadSeed, TypeInv, RedisInv
<1>2. RedisInv'
  BY <1>1, EventsStay DEF ReadSeed, TypeInv, RedisInv, history, environment
<1> DEFINE a == [worker[w] EXCEPT !.step = "delete", !.product = {p}, !.seed = Seed(p)]
           b == [worker[w] EXCEPT !.step = "reconcile", !.product = {p}, !.seed = NoState]
<1>3. Becomes(w, a) \/ Becomes(w, b)
  BY ReadSeedMoves
<1>4. a.epoch = worker[w].epoch /\ b.epoch = worker[w].epoch /\ Coherent(a.seed, events) /\ Coherent(b.seed, events)
  BY ControlIs, SeedIs, NoStateIs DEF Cycling
<1>5. control.epoch \in Nat /\ control' = control
  BY ControlIs DEF ControlRow, ReadSeed, postgres
<1> HIDE DEF a, b
<1> QED
  BY <1>2, <1>3, <1>4, <1>5, CycleTypes, ControlIs DEF ReadSeed, postgres

LEMMA DeleteTypes ==
  ASSUME TypeInv, NEW w \in Workers, Delete(w)
  PROVE  TypeInv'
<1>1. auth' \in [Products -> RedisState]
  BY NoStateIs DEF Delete, TypeInv, RedisInv
<1>2. \A p \in Products : Coherent(auth'[p], events)
  BY NoStateIs DEF Delete, TypeInv, RedisInv
<1>3. RedisInv'
  BY <1>1, <1>2, EventsStay DEF Delete, TypeInv, RedisInv, history, environment
<1> QED
  BY <1>3, GotoTypes DEF Delete, Phases

LEMMA InstallTypes ==
  ASSUME TypeInv, NEW w \in Workers, Install(w)
  PROVE  TypeInv'
<1>0. worker[w].seed \in RedisState /\ Coherent(worker[w].seed, events)
  BY ControlIs DEF Cycling
<1>1. auth' \in [Products -> RedisState]
  BY <1>0 DEF Install, TypeInv, RedisInv
<1>2. \A p \in Products : Coherent(auth'[p], events)
  BY <1>0 DEF Install, TypeInv, RedisInv
<1>3. locks' \in [Products -> Workers \cup {Nobody, Gone, Api}]
  BY DEF Install, TypeInv, RedisInv
<1>4. RedisInv'
  BY <1>1, <1>2, <1>3, EventsStay DEF Install, TypeInv, RedisInv, history, environment
<1> QED
  BY <1>4, GotoTypes DEF Install, Phases

LEMMA ReconcileTypes ==
  ASSUME TypeInv, NEW w \in Workers, Reconcile(w)
  PROVE  TypeInv'
<1>1. RedisInv'
  BY RedisStays DEF Reconcile, history, environment
<1>2. CASE Goto(w, "renew") /\ UNCHANGED postgres
  BY <1>1, <1>2, GotoTypes DEF Reconcile, Phases
<1>3. CASE GiveUp(w, TRUE)
  BY <1>1, <1>3, GiveUpTypes DEF Reconcile
<1> QED
  BY <1>2, <1>3 DEF Reconcile

LEMMA WriteManifestTypes ==
  ASSUME TypeInv, NEW w \in Workers, WriteManifest(w)
  PROVE  TypeInv'
<1>1. manifest' \in Nat
  BY ControlIs DEF WriteManifest, Cycling
<1>2. RedisInv'
  BY <1>1, EventsStay DEF WriteManifest, TypeInv, RedisInv, history, environment
<1> QED
  BY <1>2, GotoTypes DEF WriteManifest, Phases

LEMMA ReadyTypes ==
  ASSUME TypeInv, NEW w \in Workers, Ready(w)
  PROVE  TypeInv'
<1> DEFINE r == [worker[w] EXCEPT !.step = "unfence"]
<1>1. Becomes(w, r)
  BY GotoMoves DEF Ready, Phases
<1>2. r.epoch = worker[w].epoch /\ r.seed = worker[w].seed /\ Coherent(r.seed, events) /\ control.epoch \in Nat
  BY ControlIs DEF Cycling, ControlRow
<1>3. RedisInv'
  BY RedisStays DEF Ready, history, environment
<1>4. /\ control' \in ControlRow /\ (control'.owner = Nobody => ~control'.leased)
      /\ control'.epoch = control.epoch
  BY ReleasedIs DEF Ready
<1> HIDE DEF r
<1> QED
  BY <1>1, <1>2, <1>3, <1>4, CycleTypes, ControlIs DEF Ready

LEMMA UnfenceTypes ==
  ASSUME TypeInv, NEW w \in Workers, Unfence(w)
  PROVE  TypeInv'
<1>1. RedisInv'
  BY EventsStay DEF Unfence, TypeInv, RedisInv, history, environment, Global
<1>2. Becomes(w, Resting) /\ Resting.epoch = 0 /\ control.epoch \in Nat /\ control' = control
  BY BecomesIt, RestingIs, ControlIs DEF Unfence, Resting, ControlRow, postgres
<1> QED
  BY <1>1, <1>2, CycleTypes, ControlIs, RestingIs, NoStateIs DEF Unfence, postgres

LEMMA CycleStepTypes ==
  ASSUME TypeInv, NEW w \in Workers, Cycle(w)
  PROVE  TypeInv'
BY ObserveTypes, InspectTypes, ClaimTypes, FenceTypes, DrainTypes, ExtendTypes, ListTypes, ReadSeedTypes,
   DeleteTypes, InstallTypes, ReconcileTypes, RenewTypes, WriteManifestTypes, ReadyTypes, UnfenceTypes DEF Cycle

-----------------------------------------------------------------------------
(* Time and faults. *)

LEMMA LeaseTypes ==
  ASSUME TypeInv, control' = [control EXCEPT !.leased = FALSE],
         UNCHANGED <<redis, rows, log, lastEpoch, history, worker, environment>>,
         faults' \in 0..trial.left
  PROVE  TypeInv'
<1>1. RedisInv'
  BY RedisStays DEF history, environment
<1>2. ActorsInv'
  BY ActorsStay DEF history, environment
<1>3. control' \in ControlRow /\ ~control'.leased /\ control'.epoch = control.epoch
  BY ControlIs DEF ControlRow
<1>4. RowsInv'
  BY <1>3, RowsStay DEF history, environment
<1>5. CountsInv'
  BY <1>3 DEF TypeInv, CountsInv, history, environment
<1> QED
  BY <1>1, <1>2, <1>4, <1>5 DEF TypeInv

LEMMA FaultIs ==
  ASSUME TypeInv, NEW k, Fault(k)
  PROVE  faults' \in 0..trial.left
BY TrialIs DEF Fault, Trial, TypeInv, CountsInv

LEMMA CountedFaults ==
  ASSUME TypeInv
  PROVE  faults \in 0..trial.left
BY DEF TypeInv, CountsInv

LEMMA LockEndsTypes ==
  ASSUME TypeInv, NEW p \in Products, LockEnds(p)
  PROVE  TypeInv'
<1>1. locks' \in [Products -> Workers \cup {Nobody, Gone, Api}]
  BY DEF LockEnds, TypeInv, RedisInv
<1>2. RedisInv'
  BY <1>1, EventsStay DEF LockEnds, TypeInv, RedisInv, history, environment
<1>3. RowsInv'
  BY RowsStay, ControlIs DEF LockEnds, history, environment, postgres
<1>4. ActorsInv'
  BY ActorsStay DEF LockEnds, history, environment
<1>5. CountsInv'
  BY CountsStay DEF LockEnds, environment, postgres
<1> QED
  BY <1>2, <1>3, <1>4, <1>5 DEF TypeInv

LEMMA HalfIs ==
  ASSUME TypeInv, NEW w \in Workers, HalfRebuilt(w)
  PROVE  lost' \subseteq Products
BY ControlIs DEF HalfRebuilt, TypeInv, CountsInv, Cycling

\* What is left of the types once Redis, the rows and the actors are known to be well formed.
LEMMA FaultCounts ==
  ASSUME TypeInv, faults' \in 0..trial.left, lost' \subseteq Products, owed' \subseteq Products,
         control'.epoch = control.epoch, \A w \in Workers : worker'[w] = worker[w] \/ worker'[w] = Resting,
         UNCHANGED <<trial, needless, events, lastEpoch, rows, creating, seeds>>
  PROVE  CountsInv'
<1>1. Resting.epoch = 0 /\ control.epoch \in Nat
  BY ControlIs DEF Resting, ControlRow
<1> QED
  BY <1>1 DEF TypeInv, CountsInv

LEMMA ErrorTypes ==
  ASSUME TypeInv, NEW w \in Workers, Error(w)
  PROVE  TypeInv'
<1>1. PICK recorded \in BOOLEAN : GiveUp(w, recorded)
  BY DEF Error
<1>2. Becomes(w, Resting) /\ UNCHANGED <<rows, log, lastEpoch>>
  BY <1>1, GaveUp
<1>3. control' \in ControlRow /\ (control'.owner = Nobody => ~control'.leased) /\ control'.epoch = control.epoch
  BY <1>1, GaveUp, ReleasedIs, ControlIs
<1>4. locks' \in [Products -> Workers \cup {Nobody, Gone, Api}]
  BY DEF Error, TypeInv, RedisInv
<1>5. RedisInv'
  BY <1>4, EventsStay DEF Error, TypeInv, RedisInv, environment
<1>6. RowsInv'
  BY <1>2, <1>3, RowsStay DEF Error, environment
<1>7. ActorsInv'
  BY <1>2, ActorsMove, RestingIs, NoStateIs DEF Error, environment
<1>8. CountsInv'
  BY <1>2, <1>3, FaultCounts, FaultIs, HalfIs DEF Error, environment, Becomes, TypeInv, CountsInv
<1> QED
  BY <1>5, <1>6, <1>7, <1>8 DEF TypeInv

LEMMA CrashTypes ==
  ASSUME TypeInv, NEW w \in Workers, Crash(w)
  PROVE  TypeInv'
<1>1. Becomes(w, Resting)
  BY BecomesIt, RestingIs DEF Crash
<1>2. control' \in ControlRow /\ (control'.owner = Nobody => ~control'.leased) /\ control'.epoch = control.epoch
  BY ControlIs, RecoveryAssumption DEF Crash, ControlRow, Nobody, Gone
<1>3. locks' \in [Products -> Workers \cup {Nobody, Gone, Api}]
  BY DEF Crash, TypeInv, RedisInv
<1>4. RedisInv'
  BY <1>3, EventsStay DEF Crash, TypeInv, RedisInv
<1>5. RowsInv'
  BY <1>2, RowsStay DEF Crash
<1>6. ActorsInv'
  <2>1. /\ inflight' \in [Workers -> [Products -> Event \cup {NoEvent}]]
        /\ \A v \in Workers, p \in Products : inflight'[v][p] # NoEvent => inflight'[v][p] = inflight[v][p]
    BY DEF Crash, TypeInv, ActorsInv
  <2>2. \A v \in Workers : Coherent(worker'[v].seed, events)
    BY <1>1, RestingIs, NoStateIs DEF Becomes, TypeInv, ActorsInv
  <2> QED
    BY <1>1, <2>1, <2>2, EventsStay DEF Crash, TypeInv, ActorsInv, Becomes
<1>7. CountsInv'
  BY <1>1, <1>2, FaultCounts, FaultIs, HalfIs DEF Crash, Becomes, TypeInv, CountsInv
<1> QED
  BY <1>4, <1>5, <1>6, <1>7 DEF TypeInv

LEMMA LoseAllTypes ==
  ASSUME TypeInv, LoseAll
  PROVE  TypeInv'
<1>1. RedisInv'
  <2>1. auth' \in [Products -> RedisState] /\ \A p \in Products : Coherent(auth'[p], events)
    BY NoStateIs DEF LoseAll
  <2>2. stream' \in [Products -> Seq(Event)] /\ \A p \in Products : DOMAIN stream'[p] = {}
    BY DEF LoseAll
  <2>3. locks' \in [Products -> Workers \cup {Nobody, Gone, Api}]
    BY DEF LoseAll
  <2> QED
    BY <2>1, <2>2, <2>3, EventsStay DEF LoseAll, RedisInv
<1>2. RowsInv'
  BY RowsStay, ControlIs DEF LoseAll, postgres
<1>3. ActorsInv'
  <2>1. /\ inflight' \in [Workers -> [Products -> Event \cup {NoEvent}]]
        /\ \A v \in Workers, p \in Products : inflight'[v][p] # NoEvent => inflight'[v][p] = inflight[v][p]
    BY DEF LoseAll, TypeInv, ActorsInv
  <2> QED
    BY <2>1, EventsStay DEF LoseAll, TypeInv, ActorsInv
<1>4. CountsInv'
  <2>1. owed' \subseteq Products
    BY ActiveIs DEF LoseAll, TypeInv, CountsInv
  <2> QED
    BY <2>1, FaultCounts, FaultIs DEF LoseAll, postgres
<1> QED
  BY <1>1, <1>2, <1>3, <1>4 DEF TypeInv

LEMMA LoseStateTypes ==
  ASSUME TypeInv, NEW p \in Products, LoseState(p)
  PROVE  TypeInv'
<1>1. RedisInv'
  BY NoStateIs, EventsStay DEF LoseState, TypeInv, RedisInv, environment
<1>2. RowsInv' /\ ActorsInv'
  BY RowsStay, ActorsStay, ControlIs DEF LoseState, postgres, environment
<1>3. CountsInv'
  BY FaultCounts, FaultIs DEF LoseState, postgres, environment, TypeInv, CountsInv
<1> QED
  BY <1>1, <1>2, <1>3 DEF TypeInv

LEMMA LoseStructureTypes ==
  ASSUME TypeInv, NEW p \in Products, LoseStructure(p)
  PROVE  TypeInv'
<1>1. auth' \in [Products -> RedisState] /\ \A q \in Products : Coherent(auth'[q], events)
  BY DEF LoseStructure, TypeInv, RedisInv, RedisState, Coherent
<1>2. RedisInv'
  BY <1>1, EventsStay DEF LoseStructure, TypeInv, RedisInv, environment
<1>3. RowsInv' /\ ActorsInv'
  BY RowsStay, ActorsStay, ControlIs DEF LoseStructure, postgres, environment
<1>4. CountsInv'
  BY FaultCounts, FaultIs DEF LoseStructure, postgres, environment, TypeInv, CountsInv
<1> QED
  BY <1>2, <1>3, <1>4 DEF TypeInv

-----------------------------------------------------------------------------
(* The API, the close job and the projector. *)

\* What was accepted stays accepted when more is.
LEMMA EventsGrow ==
  ASSUME NEW n \in Nat
  PROVE  /\ \A e \in Event : Made(e, n) => Made(e, n + 1)
         /\ \A l \in Seq(Event) : Sound(l, n) => Sound(l, n + 1)
         /\ \A s \in RedisState : Coherent(s, n) => Coherent(s, n + 1)
<1>1. \A e \in Event : Made(e, n) => Made(e, n + 1)
  <2> TAKE e \in Event
  <2>1. e.id \in Int
    BY DEF Event
  <2> QED
    BY <2>1 DEF Made
<1>2. \A l \in Seq(Event) : Sound(l, n) => Sound(l, n + 1)
  <2> TAKE l \in Seq(Event)
  <2>1. \A i \in DOMAIN l : l[i] \in Event
    OBVIOUS
  <2> QED
    BY <1>1, <2>1 DEF Sound
<1>3. \A s \in RedisState : Coherent(s, n) => Coherent(s, n + 1)
  BY <1>2 DEF Coherent, RedisState
<1> QED
  BY <1>1, <1>2, <1>3

LEMMA AppendIs ==
  ASSUME NEW S, NEW s \in Seq(S), NEW e \in S
  PROVE  /\ Append(s, e) \in Seq(S) /\ Len(Append(s, e)) = Len(s) + 1
         /\ DOMAIN Append(s, e) = 1..Len(s) + 1 /\ DOMAIN s = 1..Len(s) /\ Len(s) \in Nat
         /\ \A i \in DOMAIN Append(s, e) : Append(s, e)[i] = IF i = Len(s) + 1 THEN e ELSE s[i]
         /\ \A i \in DOMAIN s : Append(s, e)[i] = s[i]
         /\ Append(s, e)[Len(s) + 1] = e /\ Append(s, e) # <<>> /\ Last(Append(s, e)) = e
BY DEF Last

LEMMA SoundAppend ==
  ASSUME NEW n \in Nat, NEW l \in Seq(Event), NEW e \in Event, Sound(l, n), Made(e, n), e.at = Len(l) + 1
  PROVE  Append(l, e) \in Seq(Event) /\ Sound(Append(l, e), n)
<1>1. Append(l, e) \in Seq(Event)
  BY AppendIs
<1>2. ASSUME NEW i \in DOMAIN Append(l, e)
      PROVE  Append(l, e)[i].at = i /\ Made(Append(l, e)[i], n)
  <2>1. CASE i = Len(l) + 1
    BY <2>1, AppendIs
  <2>2. CASE i # Len(l) + 1
    <3>1. i \in DOMAIN l /\ Append(l, e)[i] = l[i]
      BY <2>2, AppendIs
    <3> QED
      BY <3>1 DEF Sound
  <2> QED
    BY <2>1, <2>2
<1> QED
  BY <1>1, <1>2 DEF Sound

\* The event a mutation appends.
NewEvent(p, k) == [at |-> Len(auth[p].log) + 1, id |-> events + 1, kind |-> k]

LEMMA MutateIs ==
  ASSUME TypeInv, NEW p \in Products, NEW k \in {"BID", "CLOSE"}, Mutate(p, k)
  PROVE  /\ NewEvent(p, k) \in Event /\ Made(NewEvent(p, k), events + 1)
         /\ NewEvent(p, k).at = Len(auth[p].log) + 1 /\ NewEvent(p, k).kind = k
         /\ auth[p].log \in Seq(Event) /\ stream[p] \in Seq(Event)
         /\ auth' \in [Products -> RedisState] /\ auth'[p].keys = auth[p].keys
         /\ auth'[p].log = Append(auth[p].log, NewEvent(p, k))
         /\ auth'[p].status = (IF k = "CLOSE" THEN "ENDED" ELSE "ACTIVE")
         /\ stream' \in [Products -> Seq(Event)] /\ stream'[p] = Append(stream[p], NewEvent(p, k))
         /\ \A q \in Products \ {p} : auth'[q] = auth[q] /\ stream'[q] = stream[q]
         /\ events \in Nat /\ events' = events + 1 /\ UNCHANGED trial
<1> DEFINE l == auth[p].log
<1>1. l \in Seq(Event) /\ Sound(l, events) /\ events \in Nat /\ trial.events \in Nat /\ events < trial.events
  BY TrialIs DEF TypeInv, RedisInv, CountsInv, RedisState, Coherent, Mutate, Trial
<1>2. Len(l) <= events
  <2>1. CASE Len(l) = 0
    BY <1>1, <2>1
  <2>2. CASE Len(l) # 0
    <3>1. Len(l) \in DOMAIN l
      BY <1>1, <2>2
    <3>2. l[Len(l)] \in Event /\ l[Len(l)].at = Len(l) /\ Made(l[Len(l)], events)
      BY <1>1, <3>1 DEF Sound
    <3> QED
      BY <1>1, <3>2 DEF Made, Event
  <2> QED
    BY <2>1, <2>2
<1>3. UNCHANGED trial /\ events' = events + 1 /\ Len(l) \in Nat
  BY <1>1 DEF Mutate, history
<1> HIDE DEF l
<1>4. /\ NewEvent(p, k) \in Event /\ Made(NewEvent(p, k), events + 1) /\ NewEvent(p, k).at = Len(l) + 1
      /\ NewEvent(p, k).kind = k
  BY <1>1, <1>2, <1>3 DEF NewEvent, Event, Made, l
<1>5. auth[p] \in RedisState /\ stream[p] \in Seq(Event) /\ Append(l, NewEvent(p, k)) \in Seq(Event)
  BY <1>1, <1>4, AppendIs DEF TypeInv, RedisInv
<1>6. /\ auth' = [auth EXCEPT ![p].log = Append(@, NewEvent(p, k)),
                              ![p].status = IF k = "CLOSE" THEN "ENDED" ELSE "ACTIVE"]
      /\ stream' = [stream EXCEPT ![p] = Append(@, NewEvent(p, k))]
  BY DEF Mutate, NewEvent
<1> DEFINE s == [auth[p] EXCEPT !.log = Append(l, NewEvent(p, k)), !.status = IF k = "CLOSE" THEN "ENDED" ELSE "ACTIVE"]
<1>7. /\ s \in RedisState /\ s.keys = auth[p].keys /\ s.log = Append(l, NewEvent(p, k))
      /\ s.status = IF k = "CLOSE" THEN "ENDED" ELSE "ACTIVE"
  BY <1>5 DEF RedisState
<1>8. auth' = [auth EXCEPT ![p] = s]
  BY <1>6 DEF l
<1> HIDE DEF s
<1>9. /\ auth' \in [Products -> RedisState] /\ auth'[p] = s
      /\ \A q \in Products \ {p} : auth'[q] = auth[q]
  BY <1>7, <1>8 DEF TypeInv, RedisInv
<1>10. /\ stream' \in [Products -> Seq(Event)] /\ stream'[p] = Append(stream[p], NewEvent(p, k))
       /\ \A q \in Products \ {p} : stream'[q] = stream[q]
  BY <1>4, <1>5, <1>6, AppendIs DEF TypeInv, RedisInv
<1> QED
  BY <1>1, <1>3, <1>4, <1>5, <1>7, <1>9, <1>10 DEF l

LEMMA MutateTypes ==
  ASSUME TypeInv, NEW p \in Products, NEW k \in {"BID", "CLOSE"}, Mutate(p, k)
  PROVE  TypeInv'
<1> DEFINE e == NewEvent(p, k)
<1>1. /\ e \in Event /\ Made(e, events + 1) /\ e.at = Len(auth[p].log) + 1
      /\ events \in Nat /\ events' = events + 1 /\ UNCHANGED trial
  BY MutateIs
<1>2. /\ \A f \in Event : Made(f, events) => Made(f, events')
      /\ \A l \in Seq(Event) : Sound(l, events) => Sound(l, events')
      /\ \A s \in RedisState : Coherent(s, events) => Coherent(s, events')
  BY <1>1, EventsGrow
<1>3. \A q \in Products : Coherent(auth'[q], events')
  <2>1. Coherent(auth'[p], events')
    <3>1. auth[p].keys # "none" /\ auth'[p].keys = auth[p].keys /\ auth'[p].log = Append(auth[p].log, e)
      BY MutateIs DEF Mutate, Writable
    <3>2. auth[p].log \in Seq(Event) /\ Sound(auth[p].log, events')
      BY <1>2, MutateIs DEF TypeInv, RedisInv, Coherent
    <3>3. Sound(Append(auth[p].log, e), events')
      BY <1>1, <3>2, SoundAppend
    <3> QED
      BY <3>1, <3>3 DEF Coherent
  <2>2. ASSUME NEW q \in Products \ {p}
        PROVE  Coherent(auth'[q], events')
    BY <1>2, MutateIs DEF TypeInv, RedisInv
  <2> QED
    BY <2>1, <2>2
<1>4. ASSUME NEW q \in Products, NEW i \in DOMAIN stream'[q]
      PROVE  Made(stream'[q][i], events')
  <2>1. CASE q = p
    <3>1. stream'[p] = Append(stream[p], e) /\ stream[p] \in Seq(Event)
      BY MutateIs
    <3>2. stream'[p][i] = IF i = Len(stream[p]) + 1 THEN e ELSE stream[p][i]
      BY <1>1, <2>1, <3>1, AppendIs
    <3>3. CASE i = Len(stream[p]) + 1
      BY <1>1, <2>1, <3>2, <3>3
    <3>4. CASE i # Len(stream[p]) + 1
      <4>1. i \in DOMAIN stream[p]
        BY <1>1, <2>1, <3>1, <3>4, AppendIs
      <4> QED
        BY <1>2, <2>1, <3>1, <3>2, <3>4, <4>1 DEF TypeInv, RedisInv
    <3> QED
      BY <3>3, <3>4
  <2>2. CASE q # p
    <3>1. stream'[q] = stream[q] /\ stream[q] \in Seq(Event)
      BY <2>2, MutateIs DEF TypeInv, RedisInv
    <3> QED
      BY <1>2, <3>1 DEF TypeInv, RedisInv
  <2> QED
    BY <2>1, <2>2
<1>5. RedisInv'
  BY <1>1, <1>3, <1>4, MutateIs, EventsStay DEF TypeInv, RedisInv, Mutate
<1>6. RowsInv'
  BY <1>1, <1>2, EventsStay DEF Mutate, postgres, TypeInv, RowsInv
<1>7. ActorsInv'
  <2>1. \A w \in Workers : worker[w].seed \in RedisState
    BY DEF TypeInv, ActorsInv, Cycling
  <2>2. \A w \in Workers, q \in Products : inflight[w][q] # NoEvent => inflight[w][q] \in Event
    BY DEF TypeInv, ActorsInv
  <2> QED
    BY <1>1, <1>2, <2>1, <2>2, EventsStay DEF Mutate, TypeInv, ActorsInv
<1>8. CountsInv'
  BY <1>1, TrialIs DEF Mutate, postgres, history, TypeInv, CountsInv, Trial
<1> QED
  BY <1>5, <1>6, <1>7, <1>8 DEF TypeInv

LEMMA BeginTypes ==
  ASSUME TypeInv, NEW p \in Products, Begin(p)
  PROVE  TypeInv'
<1>1. RedisInv' /\ ActorsInv' /\ CountsInv'
  BY RedisStays, ActorsStay, CountsStay DEF Begin, history, postgres
<1>2. RowsInv'
  BY EventsStay DEF Begin, history, postgres, TypeInv, RowsInv
<1> QED
  BY <1>1, <1>2 DEF TypeInv

LEMMA CreateRowTypes ==
  ASSUME TypeInv, NEW p \in Products, CreateRow(p)
  PROVE  TypeInv'
<1>1. RedisInv' /\ ActorsInv'
  BY RedisStays, ActorsStay DEF CreateRow, history
<1>2. RowsInv'
  BY EventsStay DEF CreateRow, history, TypeInv, RowsInv
<1>3. CountsInv'
  BY DEF CreateRow, history, TypeInv, CountsInv
<1> QED
  BY <1>1, <1>2, <1>3 DEF TypeInv

LEMMA ReadBootstrapTypes ==
  ASSUME TypeInv, NEW p \in Products, ReadBootstrap(p)
  PROVE  TypeInv'
<1>1. /\ locks' \in [Products -> Workers \cup {Nobody, Gone, Api}]
      /\ seeds' \in [Products -> RedisState] /\ \A q \in Products : Coherent(seeds'[q], events)
  BY SeedIs DEF ReadBootstrap, TypeInv, RedisInv, ActorsInv
<1>2. RedisInv'
  BY <1>1, EventsStay DEF ReadBootstrap, TypeInv, RedisInv, history
<1>3. RowsInv'
  BY EventsStay DEF ReadBootstrap, TypeInv, RowsInv, history, postgres
<1>4. ActorsInv'
  BY <1>1, EventsStay DEF ReadBootstrap, TypeInv, ActorsInv, history
<1>5. CountsInv'
  BY DEF ReadBootstrap, TypeInv, CountsInv, history, postgres
<1> QED
  BY <1>2, <1>3, <1>4, <1>5 DEF TypeInv

LEMMA BootstrapTypes ==
  ASSUME TypeInv, NEW p \in Products, Bootstrap(p)
  PROVE  TypeInv'
<1>1. /\ locks' \in [Products -> Workers \cup {Nobody, Gone, Api}]
      /\ auth' \in [Products -> RedisState] /\ \A q \in Products : Coherent(auth'[q], events)
  BY DEF Bootstrap, TypeInv, RedisInv, ActorsInv
<1>2. seeds' \in [Products -> RedisState] /\ \A q \in Products : Coherent(seeds'[q], events)
  BY NoStateIs DEF Bootstrap, TypeInv, ActorsInv
<1>3. RedisInv'
  BY <1>1, EventsStay DEF Bootstrap, TypeInv, RedisInv, history
<1>4. RowsInv'
  BY EventsStay DEF Bootstrap, TypeInv, RowsInv, history, postgres
<1>5. ActorsInv'
  BY <1>2, EventsStay DEF Bootstrap, TypeInv, ActorsInv, history
<1>6. CountsInv'
  BY DEF Bootstrap, TypeInv, CountsInv, ActorsInv, history, postgres
<1> QED
  BY <1>3, <1>4, <1>5, <1>6 DEF TypeInv

LEMMA FetchTypes ==
  ASSUME TypeInv, NEW w \in Workers, NEW p \in Products, Fetch(w, p)
  PROVE  TypeInv'
<1>1. stream[p] \in Seq(Event) /\ Head(stream[p]) \in Event /\ Made(Head(stream[p]), events)
  BY HeadTailProperties DEF Fetch, TypeInv, RedisInv
<1>2. /\ inflight' \in [Workers -> [Products -> Event \cup {NoEvent}]]
      /\ \A v \in Workers, q \in Products :
           inflight'[v][q] = IF v = w /\ q = p THEN Head(stream[p]) ELSE inflight[v][q]
  BY <1>1 DEF Fetch, TypeInv, ActorsInv
<1>3. RedisInv' /\ RowsInv' /\ CountsInv'
  BY RedisStays, RowsStay, CountsStay, ControlIs DEF Fetch, history, postgres
<1>4. ActorsInv'
  BY <1>1, <1>2, EventsStay DEF Fetch, history, TypeInv, ActorsInv
<1> QED
  BY <1>3, <1>4 DEF TypeInv

\* An entry that is deleted, by its id: what is left are the others, in their order.
LEMMA WithoutIs ==
  ASSUME NEW s \in Seq(Event), NEW e
  PROVE  /\ Without(s, e) \in Seq(Event)
         /\ \A j \in DOMAIN Without(s, e) : \E i \in DOMAIN s : Without(s, e)[j] = s[i]
         /\ \A i \in DOMAIN s : s[i] # e => s[i] \in Range(Without(s, e))
         /\ \A j \in DOMAIN Without(s, e) : \E i \in DOMAIN s : Without(s, e)[j] = s[i]
              /\ \A h \in 1..i - 1 : s[h] # e => \E g \in 1..j - 1 : Without(s, e)[g] = s[h]
<1>1. CASE ~\E i \in DOMAIN s : s[i] = e
  BY <1>1 DEF Without, Range
<1>2. CASE \E i \in DOMAIN s : s[i] = e
  <2> DEFINE k == CHOOSE i \in DOMAIN s : s[i] = e
             a == SubSeq(s, 1, k - 1)
             b == SubSeq(s, k + 1, Len(s))
             n == Len(s)
             c == a \o b
  <2>1. k \in 1..n /\ s[k] = e /\ n \in Nat /\ DOMAIN s = 1..n
    BY <1>2
  <2>2. Without(s, e) = c
    BY <1>2 DEF Without, RemoveAt
  <2> HIDE DEF k
  <2>3. /\ a \in Seq(Event) /\ Len(a) = k - 1 /\ (\A i \in 1..k - 1 : a[i] = s[i])
    <3>1. \A i \in 1..k - 1 : s[i] \in Event
      BY <2>1
    <3> QED
      BY <2>1, <3>1, SubSeqProperties
  <2>4. /\ b \in Seq(Event) /\ Len(b) = n - k /\ (\A i \in 1..n - k : b[i] = s[k + i])
    <3>1. \A i \in k + 1..Len(s) : s[i] \in Event
      BY <2>1
    <3>2. /\ b \in Seq(Event) /\ Len(b) = (IF k + 1 <= n THEN n - (k + 1) + 1 ELSE 0)
          /\ \A i \in 1..n - (k + 1) + 1 : b[i] = s[k + 1 + i - 1]
      BY <2>1, <3>1, SubSeqProperties
    <3> HIDE DEF b, n
    <3> QED
      BY <2>1, <3>2
  <2> HIDE DEF a, b
  <2>5. /\ c \in Seq(Event) /\ DOMAIN c = 1..n - 1
        /\ \A i \in 1..n - 1 : c[i] = IF i < k THEN s[i] ELSE s[i + 1]
    <3>1. /\ c \in Seq(Event) /\ Len(c) = Len(a) + Len(b)
          /\ \A i \in 1..Len(a) + Len(b) : c[i] = IF i <= Len(a) THEN a[i] ELSE b[i - Len(a)]
      BY <2>3, <2>4, ConcatProperties
    <3> HIDE DEF c, n
    <3>2. Len(a) + Len(b) = n - 1 /\ Len(c) \in Nat /\ DOMAIN c = 1..Len(c)
      BY <2>1, <2>3, <2>4, <3>1
    <3>3. ASSUME NEW i \in 1..n - 1
          PROVE  c[i] = IF i < k THEN s[i] ELSE s[i + 1]
      <4>1. CASE i < k
        BY <2>1, <2>3, <3>1, <3>2, <4>1
      <4>2. CASE ~(i < k)
        <5>1. i - (k - 1) \in 1..n - k /\ k + (i - (k - 1)) = i + 1 /\ ~(i <= k - 1)
          BY <2>1, <4>2
        <5> QED
          BY <2>1, <2>3, <2>4, <3>1, <3>2, <4>2, <5>1
      <4> QED
        BY <4>1, <4>2
    <3> QED
      BY <3>1, <3>2, <3>3
  <2> HIDE DEF c, n
  <2>6. ASSUME NEW j \in DOMAIN c
        PROVE  \E i \in DOMAIN s : c[j] = s[i]
    <3>1. j \in 1..n - 1 /\ j + 1 \in 1..n /\ j \in 1..n
      BY <2>1, <2>5
    <3> QED
      BY <2>1, <2>5, <3>1
  <2>7. ASSUME NEW i \in DOMAIN s, s[i] # e
        PROVE  \E j \in DOMAIN c : c[j] = s[i]
    <3>1. i \in 1..n /\ i # k
      BY <2>1, <2>7
    <3>2. CASE i < k
      <4>1. i \in 1..n - 1
        BY <2>1, <3>1, <3>2
      <4> QED
        BY <2>5, <3>2, <4>1
    <3>3. CASE i > k
      <4>1. i - 1 \in 1..n - 1 /\ ~(i - 1 < k) /\ i - 1 + 1 = i
        BY <2>1, <3>1, <3>3
      <4> QED
        BY <2>5, <4>1
    <3> QED
      BY <2>1, <3>1, <3>2, <3>3
  <2>8. ASSUME NEW j \in DOMAIN c
        PROVE  \E i \in DOMAIN s : c[j] = s[i] /\ \A h \in 1..i - 1 : s[h] # e => \E g \in 1..j - 1 : c[g] = s[h]
    <3>1. j \in 1..n - 1 /\ j + 1 \in 1..n /\ j \in 1..n
      BY <2>1, <2>5
    <3>2. CASE j < k
      <4>1. c[j] = s[j]
        BY <2>5, <3>1, <3>2
      <4>2. \A h \in 1..j - 1 : c[h] = s[h]
        BY <2>1, <2>5, <3>1, <3>2
      <4> QED
        BY <2>1, <3>1, <4>1, <4>2
    <3>3. CASE ~(j < k)
      <4>1. c[j] = s[j + 1]
        BY <2>5, <3>1, <3>3
      <4>2. ASSUME NEW h \in 1..j + 1 - 1, s[h] # e
            PROVE  \E g \in 1..j - 1 : c[g] = s[h]
        <5>1. h # k /\ h \in Nat
          BY <2>1, <4>2
        <5>2. CASE h < k
          <6>1. h \in 1..j - 1 /\ h \in 1..n - 1
            BY <2>1, <3>1, <3>3, <5>2
          <6> QED
            BY <2>5, <5>2, <6>1
        <5>3. CASE h > k
          <6>1. h - 1 \in 1..j - 1 /\ h - 1 \in 1..n - 1 /\ ~(h - 1 < k) /\ h - 1 + 1 = h
            BY <2>1, <3>1, <3>3, <5>3
          <6> QED
            BY <2>5, <6>1
        <5> QED
          BY <2>1, <5>1, <5>2, <5>3
      <4> QED
        BY <2>1, <3>1, <4>1, <4>2
    <3> QED
      BY <3>2, <3>3
  <2> QED
    BY <2>2, <2>5, <2>6, <2>7, <2>8 DEF Range
<1> QED
  BY <1>1, <1>2

LEMMA ProjectIs ==
  ASSUME TypeInv, NEW w \in Workers, NEW p \in Products, Project(w, p)
  PROVE  /\ inflight[w][p] \in Event /\ Made(inflight[w][p], events)
         /\ log' \in [Products -> Seq(Event)] /\ stream' \in [Products -> Seq(Event)]
         /\ \A q \in Products \ {p} : log'[q] = log[q] /\ stream'[q] = stream[q]
         /\ stream[p] \in Seq(Event) /\ log[p] \in Seq(Event)
         /\ \/ /\ inflight[w][p] \notin Range(log[p]) /\ inflight[w][p].at = Len(log[p]) + 1
               /\ log'[p] = Append(log[p], inflight[w][p])
               /\ stream'[p] = Without(stream[p], inflight[w][p])
            \/ /\ inflight[w][p] \in Range(log[p]) /\ log' = log
               /\ stream'[p] = Without(stream[p], inflight[w][p])
            \/ log' = log /\ stream' = stream /\ inflight[w][p].at # Len(log[p]) + 1
         /\ \A v \in Workers, q \in Products :
              inflight'[v][q] = IF v = w /\ q = p THEN NoEvent ELSE inflight[v][q]
         /\ inflight' \in [Workers -> [Products -> Event \cup {NoEvent}]]
<1> DEFINE e == inflight[w][p]
<1>1. e \in Event /\ Made(e, events)
  BY DEF Project, TypeInv, ActorsInv
<1>2. stream \in [Products -> Seq(Event)] /\ log \in [Products -> Seq(Event)]
  BY DEF TypeInv, RowsInv, RedisInv
<1>3. Without(stream[p], e) \in Seq(Event) /\ Append(log[p], e) \in Seq(Event)
  BY <1>1, <1>2, WithoutIs, AppendIs
<1>4. /\ inflight' \in [Workers -> [Products -> Event \cup {NoEvent}]]
      /\ \A v \in Workers, q \in Products :
           inflight'[v][q] = IF v = w /\ q = p THEN NoEvent ELSE inflight[v][q]
  BY DEF Project, TypeInv, ActorsInv
<1>5. /\ log' = log \/ log' = [log EXCEPT ![p] = Append(@, e)]
      /\ stream' = stream \/ stream' = [stream EXCEPT ![p] = Without(@, e)]
  BY DEF Project
<1>6. /\ log' \in [Products -> Seq(Event)] /\ stream' \in [Products -> Seq(Event)]
      /\ \A q \in Products \ {p} : log'[q] = log[q] /\ stream'[q] = stream[q]
  BY <1>2, <1>3, <1>5
<1>7. /\ log' = IF e \notin Range(log[p]) /\ e.at = Len(log[p]) + 1
                THEN [log EXCEPT ![p] = Append(@, e)] ELSE log
      /\ stream' = IF e \in Range(log[p]) \/ e.at = Len(log[p]) + 1
                   THEN [stream EXCEPT ![p] = Without(@, e)] ELSE stream
  BY DEF Project
<1> HIDE DEF e
<1>8. \/ /\ e \notin Range(log[p]) /\ e.at = Len(log[p]) + 1
         /\ log'[p] = Append(log[p], e) /\ stream'[p] = Without(stream[p], e)
      \/ e \in Range(log[p]) /\ log' = log /\ stream'[p] = Without(stream[p], e)
      \/ log' = log /\ stream' = stream /\ e.at # Len(log[p]) + 1
  BY <1>2, <1>7
<1> QED
  BY <1>1, <1>2, <1>4, <1>6, <1>8 DEF e

LEMMA ProjectTypes ==
  ASSUME TypeInv, NEW w \in Workers, NEW p \in Products, Project(w, p)
  PROVE  TypeInv'
<1> DEFINE e == inflight[w][p]
<1>0. events \in Nat
  BY TrialIs DEF TypeInv, CountsInv, Trial
<1>1. \A q \in Products : Sound(log'[q], events)
  <2>1. ASSUME NEW q \in Products, q # p \/ log' = log
        PROVE  Sound(log'[q], events)
    BY <2>1, ProjectIs DEF TypeInv, RowsInv
  <2>2. CASE log' # log
    <3>1. e.at = Len(log[p]) + 1 /\ log'[p] = Append(log[p], e) /\ e \in Event /\ Made(e, events)
      BY <2>2, ProjectIs
    <3>2. log[p] \in Seq(Event) /\ Sound(log[p], events)
      BY DEF TypeInv, RowsInv
    <3>3. Sound(log'[p], events)
      BY <1>0, <3>1, <3>2, SoundAppend
    <3> QED
      BY <2>1, <3>3
  <2> QED
    BY <2>1, <2>2
<1>2. ASSUME NEW q \in Products, NEW i \in DOMAIN stream'[q]
      PROVE  Made(stream'[q][i], events)
  <2>1. /\ stream[p] \in Seq(Event)
        /\ stream'[q] = stream[q] \/ (q = p /\ stream'[p] = Without(stream[p], e))
    BY ProjectIs
  <2> HIDE DEF e
  <2>2. \E j \in DOMAIN stream[q] : stream'[q][i] = stream[q][j]
    BY <2>1, WithoutIs
  <2> QED
    BY <2>2 DEF TypeInv, RedisInv
<1>3. RedisInv'
  BY <1>2, ProjectIs, EventsStay DEF Project, history, TypeInv, RedisInv
<1>4. RowsInv'
  BY <1>1, ProjectIs, EventsStay DEF Project, history, TypeInv, RowsInv
<1>5. ActorsInv'
  BY ProjectIs, EventsStay DEF Project, history, TypeInv, ActorsInv
<1>6. CountsInv'
  BY CountsStay DEF Project, history
<1> QED
  BY <1>3, <1>4, <1>5, <1>6 DEF TypeInv

-----------------------------------------------------------------------------
(* The types hold throughout. *)

LEMMA InitTypes ==
  ASSUME Init
  PROVE  TypeInv
<1>1. trial \in Trial /\ trial.events \in Nat /\ trial.left \in Nat /\ trial.existing \subseteq Products
  BY RecoveryAssumption DEF Init, Trial
<1>2. auth \in [Products -> RedisState] /\ \A p \in Products : Coherent(auth[p], events)
  BY NoStateIs, StatusIs DEF Init, RedisState, Coherent, Sound
<1>3. \A p \in Products : DOMAIN stream[p] = {} /\ DOMAIN log[p] = {}
  BY DEF Init
<1>4. RedisInv
  <2>1. stream \in [Products -> Seq(Event)] /\ locks \in [Products -> Workers \cup {Nobody, Gone, Api}]
    BY DEF Init
  <2>2. fence \in BOOLEAN /\ auctionFence \subseteq Products /\ manifest = NoManifest
    BY DEF Init
  <2> QED
    BY <1>2, <1>3, <2>1, <2>2 DEF RedisInv
<1>5. RowsInv
  BY <1>1, <1>3 DEF Init, RowsInv, Sound, Nobody
<1>6. ActorsInv
  BY RestingIs, NoStateIs DEF Init, ActorsInv
<1>7. CountsInv
  BY <1>1 DEF Init, CountsInv, Resting
<1> QED
  BY <1>4, <1>5, <1>6, <1>7 DEF TypeInv

LEMMA StayTypes ==
  ASSUME TypeInv, UNCHANGED vars
  PROVE  TypeInv'
<1>1. UNCHANGED <<redis, history, postgres, begun, worker, inflight, creating, seeds, events, faults>>
  BY DEF vars
<1> QED
  BY <1>1, RedisStays, RowsStay, ActorsStay, CountsStay, ControlIs DEF TypeInv, history, postgres

LEMMA NextTypes ==
  ASSUME TypeInv, Next
  PROVE  TypeInv'
<1>1. CASE LeaseEnds
  BY <1>1, LeaseTypes, CountedFaults DEF LeaseEnds, environment, history
<1>2. CASE Stall
  BY <1>2, LeaseTypes, FaultIs DEF Stall
<1> QED
  BY <1>1, <1>2, MutateTypes, BeginTypes, CreateRowTypes, ReadBootstrapTypes, BootstrapTypes, LockEndsTypes,
     LoseStateTypes, LoseStructureTypes, CycleStepTypes, ErrorTypes, CrashTypes, FetchTypes, ProjectTypes,
     LoseAllTypes DEF Next

\* The state keeps its type, which includes how its parts belong together: the events
\* of a log are numbered from one and were accepted once, a state that is missing has
\* no events, an epoch never exceeds the one of the control row, and without a
\* creation there is no bootstrap by the API.
THEOREM TypesHold == Spec => []TypeInv
<1>1. TypeInv /\ [Next]_vars => TypeInv'
  BY NextTypes, StayTypes
<1> QED
  BY <1>1, InitTypes, PTL DEF Spec

LEMMA TypesSuffice ==
  ASSUME TypeInv
  PROVE  TypeOK
BY DEF TypeInv, RedisInv, RowsInv, ActorsInv, CountsInv, TypeOK, RedisState, Cycling

-----------------------------------------------------------------------------
(* What each step of a cycle leaves of what the worker was doing. *)

OthersStay(w) == \A v \in Workers \ {w} : worker'[v] = worker[v]
\* The recovery is still the same.
SameRecovery(w) == worker'[w].trigger = worker[w].trigger /\ worker'[w].targets = worker[w].targets

LEMMA Went ==
  ASSUME TypeInv, NEW w \in Workers, NEW s \in Phases, Goto(w, s)
  PROVE  /\ OthersStay(w) /\ SameRecovery(w) /\ worker'[w].step = s /\ worker'[w].epoch = worker[w].epoch
         /\ worker'[w].todo = worker[w].todo /\ worker'[w].product = worker[w].product
         /\ worker'[w].seed = worker[w].seed
<1>1. worker[w] \in Cycling
  BY ControlIs
<1> QED
  BY <1>1, GotoMoves DEF Becomes, Cycling, OthersStay, SameRecovery

LEMMA Stopped ==
  ASSUME TypeInv, NEW w \in Workers,
         Unfence(w) \/ LeaseLost(w) \/ Error(w) \/ Crash(w)
  PROVE  OthersStay(w) /\ worker'[w] = Resting
<1>1. Becomes(w, Resting)
  BY BecomesIt, RestingIs, GaveUp DEF Unfence, LeaseLost, Error, Crash, GiveUp
<1> QED
  BY <1>1 DEF Becomes, OthersStay

LEMMA Observed ==
  ASSUME TypeInv, NEW w \in Workers, Observe(w)
  PROVE  /\ OthersStay(w) /\ SameRecovery(w) /\ worker'[w].step = "inspect" /\ worker'[w].todo = activeProductIds
         /\ worker'[w].epoch = control.epoch /\ worker'[w].ready = (control.state = "READY")
         /\ worker'[w].product = worker[w].product /\ worker'[w].seed = worker[w].seed
<1>1. worker[w] \in Cycling
  BY ControlIs
<1> QED
  BY <1>1, ObserveMoves DEF Becomes, Cycling, OthersStay, SameRecovery

LEMMA Inspected ==
  ASSUME TypeInv, NEW w \in Workers, Inspect(w)
  PROVE  /\ OthersStay(w)
         /\ \/ /\ worker[w].ready /\ ~fence /\ (\A p \in worker[w].todo : ~Missing(p))
               /\ manifest' = worker[w].epoch /\ worker'[w] = Resting
            \/ /\ UNCHANGED manifest
               /\ worker'[w].step = "claim" /\ worker'[w].trigger = Trigger(worker[w].todo)
               /\ worker'[w].targets = IF Trigger(worker[w].todo) = "PARTIAL_STATE_LOSS"
                                       THEN {p \in worker[w].todo : Missing(p)} ELSE {}
               /\ worker'[w].epoch = 0 /\ worker'[w].todo = {} /\ worker'[w].product = {}
               /\ worker'[w].seed = NoState
<1> DEFINE missing == {p \in worker[w].todo : Missing(p)}
           T == IF Trigger(worker[w].todo) = "PARTIAL_STATE_LOSS" THEN missing ELSE {}
           r == [Resting EXCEPT !.step = "claim", !.trigger = Trigger(worker[w].todo), !.targets = T]
<1>1. \/ /\ worker[w].ready /\ ~fence /\ missing = {} /\ manifest' = worker[w].epoch /\ Becomes(w, Resting)
      \/ UNCHANGED manifest /\ Becomes(w, r)
  BY InspectMoves
<1> HIDE DEF T
<1>2. /\ r.step = "claim" /\ r.trigger = Trigger(worker[w].todo) /\ r.targets = T
      /\ r.epoch = 0 /\ r.todo = {} /\ r.product = {} /\ r.seed = NoState
  BY DEF Resting
<1> HIDE DEF r
<1> QED
  BY <1>1, <1>2 DEF Becomes, OthersStay, T

LEMMA Claimed ==
  ASSUME TypeInv, NEW w \in Workers, Claim(w)
  PROVE  /\ OthersStay(w)
         /\ \/ worker'[w] = Resting /\ UNCHANGED control
            \/ /\ ~control.leased \/ control.owner = w
               /\ control' = [state |-> "RECOVERING", owner |-> w, leased |-> TRUE, epoch |-> ClaimedEpoch]
               /\ worker'[w].step = "fence" /\ worker'[w].epoch = ClaimedEpoch /\ SameRecovery(w)
               /\ worker'[w].todo = worker[w].todo /\ worker'[w].product = worker[w].product
               /\ worker'[w].seed = worker[w].seed
<1> DEFINE r == [worker[w] EXCEPT !.step = "fence", !.epoch = ClaimedEpoch]
<1>1. /\ r.step = "fence" /\ r.epoch = ClaimedEpoch /\ r.trigger = worker[w].trigger
      /\ r.targets = worker[w].targets /\ r.todo = worker[w].todo /\ r.product = worker[w].product
      /\ r.seed = worker[w].seed
  BY ControlIs DEF Cycling
<1>2. \/ Becomes(w, Resting) /\ UNCHANGED control
      \/ /\ ~control.leased \/ control.owner = w
         /\ control' = [state |-> "RECOVERING", owner |-> w, leased |-> TRUE, epoch |-> ClaimedEpoch]
         /\ Becomes(w, r)
  BY ClaimMoves
<1> HIDE DEF r
<1> QED
  BY <1>1, <1>2 DEF Becomes, OthersStay, SameRecovery

LEMMA Listed ==
  ASSUME TypeInv, NEW w \in Workers, List(w), ~LeaseLost(w)
  PROVE  /\ OthersStay(w) /\ SameRecovery(w) /\ Renewed(w) /\ worker'[w].step = "next"
         /\ worker'[w].todo = (IF Global(w) THEN activeProductIds ELSE worker[w].targets)
         /\ worker'[w].product = worker[w].product /\ worker'[w].seed = worker[w].seed
         /\ worker'[w].epoch = worker[w].epoch
<1> DEFINE t == IF Global(w) THEN activeProductIds ELSE worker[w].targets
           r == [worker[w] EXCEPT !.step = "next", !.todo = t]
<1>1. Renewed(w) /\ Becomes(w, r)
  BY ListMoves
<1> HIDE DEF t
<1>2. /\ r.step = "next" /\ r.todo = t /\ r.trigger = worker[w].trigger /\ r.targets = worker[w].targets
      /\ r.product = worker[w].product /\ r.seed = worker[w].seed /\ r.epoch = worker[w].epoch
  BY ControlIs DEF Cycling
<1> HIDE DEF r
<1> QED
  BY <1>1, <1>2 DEF Becomes, OthersStay, SameRecovery, t

LEMMA SeedRead ==
  ASSUME TypeInv, NEW w \in Workers, NEW p \in Products, ReadSeed(w, p)
  PROVE  /\ OthersStay(w) /\ SameRecovery(w) /\ worker'[w].todo = worker[w].todo /\ worker'[w].product = {p}
         /\ worker'[w].epoch = worker[w].epoch
         /\ \/ locks[p] = Nobody /\ worker'[w].step = "delete" /\ worker'[w].seed = Seed(p)
            \/ locks[p] # Nobody /\ worker'[w].step = "reconcile" /\ worker'[w].seed = NoState
<1>0. worker[w] \in Cycling
  BY ControlIs
<1>1. CASE locks[p] = Nobody
  <2>1. Becomes(w, [worker[w] EXCEPT !.step = "delete", !.product = {p}, !.seed = Seed(p)])
    BY <1>1, ReadSeedMoves
  <2> QED
    BY <1>0, <1>1, <2>1 DEF Becomes, Cycling, OthersStay, SameRecovery
<1>2. CASE locks[p] # Nobody
  <2>1. Becomes(w, [worker[w] EXCEPT !.step = "reconcile", !.product = {p}, !.seed = NoState])
    BY <1>2, ReadSeedMoves
  <2> QED
    BY <1>0, <1>2, <2>1 DEF Becomes, Cycling, OthersStay, SameRecovery
<1> QED
  BY <1>1, <1>2

LEMMA WentOn ==
  ASSUME TypeInv, NEW w \in Workers, Renew(w), ~LeaseLost(w)
  PROVE  /\ OthersStay(w) /\ SameRecovery(w) /\ Renewed(w) /\ worker'[w].step = "next"
         /\ worker'[w].todo = worker[w].todo \ worker[w].product
         /\ worker'[w].product = {} /\ worker'[w].seed = NoState /\ worker'[w].epoch = worker[w].epoch
<1>0. worker[w] \in Cycling
  BY ControlIs
<1>1. /\ Renewed(w)
      /\ Becomes(w, [worker[w] EXCEPT !.step = "next", !.todo = @ \ worker[w].product,
                                      !.product = {}, !.seed = NoState])
  BY RenewMoves
<1> QED
  BY <1>0, <1>1 DEF Becomes, Cycling, OthersStay, SameRecovery

\* The steps after which a worker is not between reading a seed and installing it.
LEMMA Passes ==
  ASSUME TypeInv, NEW w \in Workers,
         \/ Observe(w) \/ Inspect(w) \/ Claim(w) \/ Fence(w) \/ Drain(w) \/ Extend(w) \/ List(w)
         \/ Install(w) \/ Reconcile(w) \/ Renew(w) \/ WriteManifest(w) \/ Ready(w) \/ Unfence(w)
         \/ Error(w) \/ Crash(w)
  PROVE  OthersStay(w) /\ worker'[w].step \notin {"delete", "install"}
<1>0. Resting.step = "idle"
  BY DEF Resting
<1>1. CASE Fence(w) \/ Extend(w) \/ Install(w) \/ WriteManifest(w) \/ Ready(w)
  BY <1>1, Went DEF Fence, Extend, Install, WriteManifest, Ready, Phases
<1>2. CASE Drain(w)
  BY <1>0, <1>2, Went, Stopped DEF Drain, OthersStay, At, Phases
<1>3. CASE Reconcile(w)
  <2>1. CASE Goto(w, "renew")
    BY <2>1, Went DEF Phases
  <2>2. CASE GiveUp(w, TRUE)
    BY <1>0, <2>2, GaveUp DEF Becomes, OthersStay
  <2> QED
    BY <1>3, <2>1, <2>2 DEF Reconcile
<1>4. CASE Observe(w) \/ Inspect(w) \/ Claim(w)
  BY <1>0, <1>4, Observed, Inspected, Claimed
<1>5. CASE List(w) \/ Renew(w)
  BY <1>0, <1>5, Listed, WentOn, Stopped
<1>6. CASE Unfence(w) \/ Error(w) \/ Crash(w)
  BY <1>0, <1>6, Stopped
<1> QED
  BY <1>1, <1>2, <1>3, <1>4, <1>5, <1>6

-----------------------------------------------------------------------------
(* Nothing that Redis holds is missing from both the log and the stream.   *)

KeptInv ==
  /\ Kept
  /\ \A p \in Products : Range(seeds[p].log) \subseteq Range(log[p])
  /\ \A w \in Workers, p \in Products :
       worker[w].step \in {"delete", "install"} /\ p \in worker[w].product =>
         Range(worker[w].seed.log) \subseteq Range(log[p])

LEMMA RangeIs == Range(<<>>) = {}
BY DEF Range

LEMMA RangeAppend ==
  ASSUME NEW S, NEW s \in Seq(S), NEW e \in S
  PROVE  Range(Append(s, e)) = Range(s) \cup {e} /\ e \in Range(Append(s, e)) /\ Range(s) \subseteq Range(Append(s, e))
<1>1. /\ DOMAIN Append(s, e) = 1..Len(s) + 1 /\ DOMAIN s = 1..Len(s) /\ Len(s) \in Nat
      /\ \A i \in 1..Len(s) : Append(s, e)[i] = s[i]
      /\ Append(s, e)[Len(s) + 1] = e
  BY AppendIs
<1>2. Range(Append(s, e)) = {Append(s, e)[i] : i \in 1..Len(s) + 1} /\ Range(s) = {s[i] : i \in 1..Len(s)}
  BY <1>1 DEF Range
<1>3. Range(Append(s, e)) \subseteq Range(s) \cup {e}
  <2>1. ASSUME NEW i \in 1..Len(s) + 1
        PROVE  Append(s, e)[i] \in Range(s) \cup {e}
    BY <1>1, <1>2
  <2> QED
    BY <1>2, <2>1
<1>4. Range(s) \cup {e} \subseteq Range(Append(s, e))
  <2>1. ASSUME NEW i \in 1..Len(s)
        PROVE  s[i] \in Range(Append(s, e))
    BY <1>1, <1>2
  <2>2. e \in Range(Append(s, e))
    BY <1>1, <1>2
  <2> QED
    BY <1>2, <2>1, <2>2
<1> QED
  BY <1>3, <1>4

\* A step that moves no event, and reads no seed.
LEMMA KeptStays ==
  ASSUME KeptInv, UNCHANGED <<auth, stream, log, seeds>>,
         \A v \in Workers : worker'[v] = worker[v] \/ worker'[v].step \notin {"delete", "install"}
  PROVE  KeptInv'
BY DEF KeptInv, Kept

LEMMA MutateKeeps ==
  ASSUME TypeInv, KeptInv, NEW p \in Products, NEW k \in {"BID", "CLOSE"}, Mutate(p, k)
  PROVE  KeptInv'
<1> DEFINE e == NewEvent(p, k)
<1>1. Range(auth'[p].log) = Range(auth[p].log) \cup {e} /\ Range(stream'[p]) = Range(stream[p]) \cup {e}
  <2>1. /\ e \in Event /\ auth[p].log \in Seq(Event) /\ stream[p] \in Seq(Event)
        /\ auth'[p].log = Append(auth[p].log, e) /\ stream'[p] = Append(stream[p], e)
    BY MutateIs
  <2> HIDE DEF e
  <2> QED
    BY <2>1, RangeAppend
<1>2. Kept'
  BY <1>1, MutateIs DEF KeptInv, Kept, Mutate, postgres
<1> QED
  BY <1>2 DEF KeptInv, Mutate, postgres

LEMMA ReadBootstrapKeeps ==
  ASSUME TypeInv, KeptInv, NEW p \in Products, ReadBootstrap(p)
  PROVE  KeptInv'
BY SeedIs DEF ReadBootstrap, KeptInv, Kept, TypeInv, ActorsInv, postgres

LEMMA BootstrapKeeps ==
  ASSUME TypeInv, KeptInv, NEW p \in Products, Bootstrap(p)
  PROVE  KeptInv'
<1>1. /\ \A q \in Products : auth'[q] = auth[q] \/ auth'[q] = seeds[q]
      /\ \A q \in Products : seeds'[q] = seeds[q] \/ seeds'[q] = NoState
  BY DEF Bootstrap, TypeInv, RedisInv, ActorsInv
<1> QED
  BY <1>1, NoStateIs, RangeIs DEF Bootstrap, KeptInv, Kept, postgres

LEMMA ProjectKeeps ==
  ASSUME TypeInv, KeptInv, NEW w \in Workers, NEW p \in Products, Project(w, p)
  PROVE  KeptInv'
<1> DEFINE e == inflight[w][p]
<1>0. /\ e \in Event /\ log[p] \in Seq(Event) /\ \A q \in Products \ {p} : log'[q] = log[q]
      /\ \/ log'[p] = Append(log[p], e)
         \/ log' = log /\ (e \in Range(log[p]) \/ stream' = stream)
  BY ProjectIs
<1>1. \A q \in Products : Range(log[q]) \subseteq Range(log'[q])
  <2> HIDE DEF e
  <2>1. log' = log \/ Range(log[p]) \subseteq Range(log'[p])
    BY <1>0, RangeAppend
  <2> QED
    BY <1>0, <2>1
<1>2. Range(stream[p]) \subseteq Range(stream'[p]) \cup {e} /\ (e \in Range(log'[p]) \/ stream' = stream)
  <2>1. stream[p] \in Seq(Event) /\ (stream' = stream \/ stream'[p] = Without(stream[p], e))
    BY ProjectIs
  <2> HIDE DEF e
  <2>2. e \in Range(log'[p]) \/ stream' = stream
    BY <1>0, RangeAppend
  <2>3. \A i \in DOMAIN stream[p] : stream[p][i] # e => stream[p][i] \in Range(Without(stream[p], e))
    BY <2>1, WithoutIs
  <2> QED
    BY <2>1, <2>2, <2>3 DEF Range
<1>3. \A q \in Products \ {p} : stream'[q] = stream[q]
  BY ProjectIs
<1>4. UNCHANGED <<auth, seeds, worker>>
  BY DEF Project
<1> HIDE DEF e
<1>5. Kept'
  BY <1>1, <1>2, <1>3, <1>4 DEF KeptInv, Kept
<1> QED
  BY <1>1, <1>4, <1>5 DEF KeptInv

LEMMA ReadSeedKeeps ==
  ASSUME TypeInv, KeptInv, NEW w \in Workers, NEW p \in Products, ReadSeed(w, p)
  PROVE  KeptInv'
<1>1. UNCHANGED <<auth, stream, log, seeds>>
  BY DEF ReadSeed, postgres, environment
<1>2. OthersStay(w) /\ worker'[w].product = {p} /\ (worker'[w].seed = Seed(p) \/ worker'[w].seed = NoState)
  BY SeedRead
<1>3. Range(worker'[w].seed.log) \subseteq Range(log[p])
  BY <1>2, SeedIs, NoStateIs, RangeIs
<1> QED
  BY <1>1, <1>2, <1>3 DEF KeptInv, Kept, OthersStay

LEMMA DeleteKeeps ==
  ASSUME TypeInv, KeptInv, NEW w \in Workers, Delete(w)
  PROVE  KeptInv'
<1>1. UNCHANGED <<stream, log, seeds>> /\ \A p \in Products : auth'[p] = auth[p] \/ auth'[p] = NoState
  BY DEF Delete, postgres, environment
<1>2. /\ OthersStay(w) /\ worker'[w].product = worker[w].product /\ worker'[w].seed = worker[w].seed
      /\ worker[w].step = "delete"
  BY Went DEF Delete, Phases, At
<1> QED
  BY <1>1, <1>2, NoStateIs, RangeIs DEF KeptInv, Kept, OthersStay

LEMMA InstallKeeps ==
  ASSUME TypeInv, KeptInv, NEW w \in Workers, Install(w)
  PROVE  KeptInv'
<1>1. /\ UNCHANGED <<stream, log, seeds>> /\ worker[w].step = "install"
      /\ \A p \in Products : auth'[p] = auth[p] \/ (p \in worker[w].product /\ auth'[p] = worker[w].seed)
  BY DEF Install, postgres, environment, At
<1> QED
  BY <1>1, Passes DEF KeptInv, Kept, OthersStay

LEMMA LossKeeps ==
  ASSUME TypeInv, KeptInv, LoseAll \/ \E p \in Products : LoseState(p) \/ LoseStructure(p)
  PROVE  KeptInv'
<1>1. UNCHANGED <<log, seeds, worker>>
  BY DEF LoseAll, LoseState, LoseStructure, postgres, environment
<1>2. CASE LoseAll
  BY <1>1, <1>2, NoStateIs, RangeIs DEF LoseAll, KeptInv, Kept
<1>3. CASE \E p \in Products : LoseState(p) \/ LoseStructure(p)
  <2>1. stream' = stream /\ \A p \in Products : auth'[p].log = auth[p].log \/ auth'[p] = NoState
    <3>0. auth \in [Products -> RedisState]
      BY DEF TypeInv, RedisInv
    <3>1. ASSUME NEW p \in Products, LoseState(p)
          PROVE  stream' = stream /\ \A q \in Products : auth'[q] = auth[q] \/ auth'[q] = NoState
      BY <3>0, <3>1 DEF LoseState
    <3>2. ASSUME NEW p \in Products, LoseStructure(p)
          PROVE  stream' = stream /\ \A q \in Products : auth'[q].log = auth[q].log
      BY <3>0, <3>2 DEF LoseStructure, RedisState
    <3> QED
      BY <1>3, <3>1, <3>2
  <2> QED
    BY <1>1, <2>1, NoStateIs, RangeIs DEF KeptInv, Kept
<1> QED
  BY <1>2, <1>3

\* The steps that move no event and read no seed.
Outside ==
  \/ LeaseEnds \/ Stall
  \/ \E p \in Products : \/ Begin(p) \/ CreateRow(p) \/ LockEnds(p)
                         \/ \E w \in Workers : Fetch(w, p)
Passing(w) ==
  \/ Observe(w) \/ Inspect(w) \/ Claim(w) \/ Fence(w) \/ Drain(w) \/ Extend(w) \/ List(w)
  \/ Reconcile(w) \/ Renew(w) \/ WriteManifest(w) \/ Ready(w) \/ Unfence(w) \/ Error(w) \/ Crash(w)

LEMMA OutsideIs ==
  ASSUME Outside
  PROVE  UNCHANGED <<auth, stream, log, seeds, trial, worker>>
BY DEF Outside, Begin, CreateRow, LockEnds, Fetch, LeaseEnds, Stall, redis, postgres, history, environment

LEMMA PassingIs ==
  ASSUME TypeInv, NEW w \in Workers, Passing(w)
  PROVE  /\ UNCHANGED <<auth, stream, log, seeds, trial>>
         /\ OthersStay(w) /\ worker'[w].step \notin {"delete", "install"}
<1>1. UNCHANGED <<auth, stream, log, seeds, trial>>
  BY DEF Passing, Observe, Inspect, Claim, Fence, Drain, Extend, List, Reconcile, Renew, WriteManifest, Ready,
         Unfence, Error, Crash, GiveUp, Renewed, LeaseLost, redis, postgres, history, environment
<1> QED
  BY <1>1, Passes DEF Passing

LEMMA NextIs ==
  ASSUME [Next]_vars
  PROVE  \/ UNCHANGED vars \/ Outside \/ LoseAll
         \/ \E p \in Products : \/ \E k \in {"BID", "CLOSE"} : Mutate(p, k)
                                \/ ReadBootstrap(p) \/ Bootstrap(p) \/ LoseState(p) \/ LoseStructure(p)
         \/ \E w \in Workers : \/ Passing(w) \/ Delete(w) \/ Install(w)
                               \/ \E p \in Products : ReadSeed(w, p) \/ Project(w, p)
BY DEF Next, Cycle, Outside, Passing

LEMMA NextKeeps ==
  ASSUME TypeInv, KeptInv, [Next]_vars
  PROVE  KeptInv'
<1>1. CASE UNCHANGED vars
  BY <1>1, KeptStays DEF vars, redis, postgres
<1>2. CASE Outside
  BY <1>2, OutsideIs, KeptStays
<1>3. ASSUME NEW w \in Workers, Passing(w)
      PROVE  KeptInv'
  BY <1>3, PassingIs, KeptStays DEF OthersStay
<1> QED
  BY <1>1, <1>2, <1>3, NextIs, MutateKeeps, ReadBootstrapKeeps, BootstrapKeeps, LossKeeps, ReadSeedKeeps,
     ProjectKeeps, DeleteKeeps, InstallKeeps

-----------------------------------------------------------------------------
(* With one worker: what a recovery has drained stays still until it is    *)
(* rebuilt.                                                                *)

\* An auction that is shut stays so.
Stands(p) ==
  /\ Shut(p) => Shut(p)'
  /\ Still(p) => Still(p)'
  /\ Shut(p) /\ auth[p].keys = "none" => auth'[p].keys = "none"

LEMMA AllStand ==
  ASSUME UNCHANGED <<fence, auctionFence, auth, stream, trial>>, NEW p \in Products
  PROVE  Stands(p)
BY DEF Stands, Shut, Still, Unfenced

LEMMA MutateStands ==
  ASSUME TypeInv, NEW p \in Products, NEW k \in {"BID", "CLOSE"}, Mutate(p, k), NEW q \in Products
  PROVE  Stands(q)
<1>1. ~Shut(p)
  BY DEF Mutate, Writable, Shut
<1>2. CASE q = p
  BY <1>1, <1>2 DEF Stands, Still
<1>3. CASE q # p
  BY <1>3, MutateIs DEF Stands, Shut, Still, Unfenced, Mutate, history
<1> QED
  BY <1>2, <1>3

LEMMA BootstrapStands ==
  ASSUME TypeInv, NEW p \in Products, Bootstrap(p), NEW q \in Products
  PROVE  Stands(q)
<1>1. trial.created # {} /\ UNCHANGED <<fence, auctionFence, stream, trial>>
  BY DEF Bootstrap, TypeInv, CountsInv, history
<1>2. auth' = auth \/ (auth' = [auth EXCEPT ![p] = seeds[p]] /\ Unfenced(p))
  BY DEF Bootstrap, MayBootstrap
<1>3. CASE auth' = auth
  BY <1>1, <1>3, AllStand
<1>4. CASE auth' = [auth EXCEPT ![p] = seeds[p]] /\ Unfenced(p)
  BY <1>1, <1>4 DEF Stands, Shut, Still, Unfenced, TypeInv, RedisInv
<1> QED
  BY <1>2, <1>3, <1>4

LEMMA ProjectStands ==
  ASSUME TypeInv, NEW w \in Workers, NEW p \in Products, Project(w, p), NEW q \in Products
  PROVE  Stands(q)
<1>1. stream[q] = <<>> => stream'[q] = <<>>
  <2>1. stream[q] \in Seq(Event) /\ (stream'[q] = stream[q] \/ stream'[q] = Without(stream[q], inflight[w][p]))
    BY ProjectIs DEF TypeInv, RedisInv
  <2>2. stream[q] = <<>> => Without(stream[q], inflight[w][p]) = stream[q]
    BY DEF Without
  <2> QED
    BY <2>1, <2>2
<1> QED
  BY <1>1 DEF Stands, Shut, Still, Unfenced, Project, history

LEMMA LossStands ==
  ASSUME TypeInv, Unraced, LoseAll \/ \E p \in Products : LoseState(p) \/ LoseStructure(p), NEW q \in Products
  PROVE  Stands(q)
<1>0. auth \in [Products -> RedisState]
  BY DEF TypeInv, RedisInv
<1>1. CASE LoseAll
  <2>1. trial.created = {} /\ UNCHANGED trial
    BY <1>1 DEF LoseAll, Fault, Unraced
  <2>2. auth'[q].keys = "none" /\ stream'[q] = <<>>
    BY <1>1 DEF LoseAll, NoState
  <2> QED
    BY <2>1, <2>2 DEF Stands, Shut, Still, Unfenced
<1>2. ASSUME NEW p \in Products, LoseState(p)
      PROVE  Stands(q)
  <2>1. auth'[q] = auth[q] \/ (auth[q].keys # "none" /\ auth'[q].keys = "none")
    BY <1>0, <1>2 DEF LoseState, NoState
  <2> QED
    BY <1>2, <2>1 DEF LoseState, Stands, Shut, Still, Unfenced
<1>3. ASSUME NEW p \in Products, LoseStructure(p)
      PROVE  Stands(q)
  <2>1. auth'[q] = auth[q] \/ auth[q].keys = "whole"
    BY <1>0, <1>3 DEF LoseStructure
  <2> QED
    BY <1>3, <2>1 DEF LoseStructure, Stands, Shut, Still, Unfenced
<1> QED
  BY <1>1, <1>2, <1>3

LEMMA DrainStays ==
  ASSUME TypeInv, NEW w \in Workers, DrainOf(w), worker'[w] = worker[w], \A p \in Products : Stands(p)
  PROVE  DrainOf(w)'
<1>0. worker[w].todo \subseteq Products /\ worker[w].product \subseteq Products /\ worker[w].targets \subseteq Products
  BY ControlIs DEF Cycling
<1>1. /\ Scope(w)' = Scope(w) /\ Scope(w) \subseteq Products /\ Drained(w)' = Drained(w)
      /\ Drained(w) \subseteq Products /\ Rebuilding(w)' = Rebuilding(w)
  BY <1>0 DEF Scope, Global, Drained, Rebuilding
<1>2. worker[w].step = "install" => \A p \in worker[w].product : Still(p)
  BY DEF DrainOf, Drained, Rebuilding
<1>3. worker'[w].step = "drain" => \A p \in Scope(w)' : Shut(p)'
  BY <1>1 DEF DrainOf, Stands
<1>4. \A p \in Drained(w)' : Still(p)'
  BY <1>1 DEF DrainOf, Stands
<1>5. worker'[w].step = "install" => \A p \in worker'[w].product : auth'[p].keys = "none"
  BY <1>0, <1>2 DEF DrainOf, Stands, Still
<1> QED
  BY <1>1, <1>3, <1>4, <1>5 DEF DrainOf

\* A worker at rest has drained nothing.
LEMMA RestDrains ==
  ASSUME NEW w \in Workers, worker'[w] = Resting
  PROVE  DrainOf(w)'
BY DEF DrainOf, Resting, Drained, Rebuilding

\* What the only worker does leaves the others at rest.
LEMMA OneMoves ==
  ASSUME OthersRest, NEW w \in Workers, w \in trial.workers, trial.workers = {w}, OthersStay(w), UNCHANGED trial,
         \A v \in Workers \ {w} : inflight'[v] = inflight[v], DrainOf(w)'
  PROVE  OthersRest' /\ DrainInv'
<1>1. OthersRest'
  BY DEF OthersRest, OthersStay
<1>2. ASSUME NEW v \in Workers
      PROVE  DrainOf(v)'
  <2>1. CASE v # w
    <3>1. worker'[v] = Resting
      BY <1>1, <2>1 DEF OthersRest
    <3> QED
      BY <3>1, RestDrains
  <2> QED
    BY <2>1
<1> QED
  BY <1>1, <1>2 DEF DrainInv

\* Only a worker that runs does anything.
LEMMA Runs ==
  ASSUME OthersRest, NEW w \in Workers,
         Cycle(w) \/ Error(w) \/ Crash(w) \/ \E p \in Products : Fetch(w, p) \/ Project(w, p)
  PROVE  w \in trial.workers
<1>1. w \notin trial.workers => worker[w].step = "idle" /\ \A p \in Products : inflight[w][p] = NoEvent
  BY DEF OthersRest, Resting
<1> QED
  BY <1>1 DEF Cycle, Observe, Inspect, Claim, Fence, Drain, Extend, List, ReadSeed, Delete, Install, Reconcile,
     Renew, WriteManifest, Ready, Unfence, Error, Crash, Fetch, Project, At

\* A recovery that is the same concerns the same auctions.
LEMMA SameScope ==
  ASSUME TypeInv, NEW w \in Workers, SameRecovery(w)
  PROVE  Scope(w)' = Scope(w) /\ Global(w)' = Global(w) /\ Scope(w) \subseteq Products
BY ControlIs DEF SameRecovery, Scope, Global, Cycling

LEMMA ObserveDrains ==
  ASSUME TypeInv, NEW w \in Workers, DrainOf(w), Observe(w)
  PROVE  DrainOf(w)'
BY Observed DEF Observe, At, DrainOf, Drained, Rebuilding

LEMMA InspectDrains ==
  ASSUME TypeInv, NEW w \in Workers, DrainOf(w), Inspect(w)
  PROVE  DrainOf(w)'
<1>1. CASE worker'[w] = Resting
  BY <1>1, RestDrains
<1>2. CASE worker'[w] # Resting
  BY <1>2, Inspected DEF DrainOf, Drained, Rebuilding
<1> QED
  BY <1>1, <1>2

LEMMA ClaimDrains ==
  ASSUME TypeInv, NEW w \in Workers, DrainOf(w), Claim(w)
  PROVE  DrainOf(w)'
<1>1. CASE worker'[w] = Resting
  BY <1>1, RestDrains
<1>2. CASE worker'[w] # Resting
  BY <1>2, Claimed DEF Claim, At, DrainOf, Drained, Rebuilding
<1> QED
  BY <1>1, <1>2

LEMMA FenceDrains ==
  ASSUME TypeInv, NEW w \in Workers, DrainOf(w), Fence(w)
  PROVE  DrainOf(w)'
<1>1. /\ worker'[w].step = "drain" /\ SameRecovery(w) /\ worker'[w].product = worker[w].product
      /\ worker[w].step = "fence"
  BY Went DEF Fence, Phases, At
<1>2. \A p \in Scope(w) : Shut(p)'
  BY DEF Fence, Scope, Shut, Unfenced, Global
<1> QED
  BY <1>1, <1>2, SameScope DEF DrainOf, Drained, Rebuilding

LEMMA DrainDrains ==
  ASSUME TypeInv, NEW w \in Workers, DrainOf(w), Drain(w)
  PROVE  DrainOf(w)'
<1>0. worker[w].step = "drain" /\ \A p \in Products : Stands(p)
  BY AllStand DEF Drain, redis, history, At
<1>1. CASE /\ Goto(w, "extend")
           /\ \A p \in Products : Global(w) \/ p \in worker[w].targets => stream[p] = <<>>
  <2>1. /\ worker'[w].step = "extend" /\ SameRecovery(w) /\ worker'[w].product = worker[w].product
    BY <1>1, Went DEF Phases
  <2>2. Scope(w)' = Scope(w) /\ Scope(w) \subseteq Products
    BY <2>1, SameScope
  <2>3. \A p \in Scope(w) : Still(p)
    BY <1>0, <1>1, <2>2 DEF DrainOf, Still, Scope
  <2>4. \A p \in Drained(w)' : Still(p)'
    BY <1>0, <2>1, <2>2, <2>3 DEF Stands, Drained
  <2> QED
    BY <1>0, <2>1, <2>4 DEF DrainOf, Rebuilding
<1>2. CASE UNCHANGED worker
  BY <1>0, <1>2, DrainStays
<1>3. CASE LeaseLost(w)
  BY <1>3, Stopped, RestDrains
<1> QED
  BY <1>1, <1>2, <1>3 DEF Drain

LEMMA ExtendDrains ==
  ASSUME TypeInv, NEW w \in Workers, DrainOf(w), Extend(w)
  PROVE  DrainOf(w)'
<1>1. /\ worker'[w].step = "list" /\ SameRecovery(w) /\ worker'[w].product = worker[w].product
      /\ worker[w].step = "extend"
  BY Went DEF Extend, Phases, At
<1>2. Scope(w)' = Scope(w) /\ Scope(w) \subseteq Products /\ \A p \in Products : Stands(p)
  BY <1>1, SameScope, AllStand DEF Extend, redis
<1> QED
  BY <1>1, <1>2 DEF DrainOf, Drained, Rebuilding, Stands

LEMMA ListDrains ==
  ASSUME TypeInv, NEW w \in Workers, DrainOf(w), List(w)
  PROVE  DrainOf(w)'
<1>1. CASE LeaseLost(w)
  BY <1>1, Stopped, RestDrains
<1>2. CASE ~LeaseLost(w)
  <2>1. /\ worker'[w].step = "next" /\ worker'[w].product = worker[w].product /\ worker[w].step = "list"
        /\ worker'[w].todo = (IF Global(w) THEN activeProductIds ELSE worker[w].targets)
    BY <1>2, Listed DEF List, At
  <2>2. worker'[w].todo \subseteq Scope(w) /\ worker'[w].todo \subseteq Products
    BY <2>1, ActiveIs, ControlIs DEF Scope, Cycling
  <2>3. \A p \in Products : Stands(p)
    BY AllStand DEF List, redis, history
  <2>4. \A p \in Drained(w)' : Still(p)'
    BY <2>1, <2>2, <2>3 DEF DrainOf, Drained, Stands
  <2> QED
    BY <2>1, <2>4 DEF DrainOf, Rebuilding
<1> QED
  BY <1>1, <1>2

LEMMA ReadSeedDrains ==
  ASSUME TypeInv, NEW w \in Workers, DrainOf(w), NEW p \in Products, ReadSeed(w, p)
  PROVE  DrainOf(w)'
<1>1. \A q \in Products : Stands(q)
  BY AllStand DEF ReadSeed, history
<1>2. worker[w].step = "next" /\ p \in worker[w].todo /\ worker[w].todo \subseteq Products
  BY ControlIs DEF ReadSeed, At, Cycling
<1>3. \A q \in worker[w].todo : Still(q)'
  BY <1>1, <1>2 DEF DrainOf, Drained, Stands
<1>4. /\ worker'[w].todo = worker[w].todo /\ worker'[w].product = {p}
      /\ \/ worker'[w].step = "delete" /\ worker'[w].seed.keys = "whole"
         \/ worker'[w].step = "reconcile"
  BY SeedRead, SeedIs
<1> QED
  BY <1>2, <1>3, <1>4 DEF DrainOf, Drained, Rebuilding

LEMMA DeleteDrains ==
  ASSUME TypeInv, NEW w \in Workers, DrainOf(w), Delete(w)
  PROVE  DrainOf(w)'
<1>1. /\ worker'[w].step = "install" /\ worker'[w].todo = worker[w].todo
      /\ worker'[w].product = worker[w].product /\ worker'[w].seed = worker[w].seed /\ worker[w].step = "delete"
      /\ worker[w].todo \subseteq Products /\ worker[w].product \subseteq Products
  BY Went, ControlIs DEF Delete, Phases, At, Cycling
<1>2. \A p \in Products : auth'[p] = IF p \in worker[w].product THEN NoState ELSE auth[p]
  BY DEF Delete
<1>3. \A p \in Products : Stands(p)
  BY <1>2 DEF Delete, Stands, Shut, Still, Unfenced, history, NoState
<1> QED
  BY <1>1, <1>2, <1>3 DEF DrainOf, Drained, Rebuilding, Stands, NoState

LEMMA InstallDrains ==
  ASSUME TypeInv, NEW w \in Workers, DrainOf(w), Install(w)
  PROVE  DrainOf(w)'
<1>1. /\ worker'[w].step = "reconcile" /\ worker'[w].todo = worker[w].todo
      /\ worker'[w].product = worker[w].product /\ worker[w].step = "install"
      /\ worker[w].todo \subseteq Products /\ worker[w].product \subseteq Products
  BY Went, ControlIs DEF Install, Phases, At, Cycling
<1>2. \A p \in Products \ worker[w].product : auth'[p] = auth[p]
  BY DEF Install
<1>3. \A p \in Products \ worker[w].product : Still(p) => Still(p)'
  BY <1>2 DEF Install, Shut, Still, Unfenced, history
<1> QED
  BY <1>1, <1>3 DEF DrainOf, Drained, Rebuilding

LEMMA ReconcileDrains ==
  ASSUME TypeInv, NEW w \in Workers, DrainOf(w), Reconcile(w)
  PROVE  DrainOf(w)'
<1>1. CASE GiveUp(w, TRUE)
  BY <1>1, GaveUp, RestDrains DEF Becomes
<1>2. CASE Goto(w, "renew")
  <2>1. /\ worker'[w].step = "renew" /\ worker'[w].todo = worker[w].todo
        /\ worker'[w].product = worker[w].product /\ worker[w].step = "reconcile"
        /\ worker[w].todo \subseteq Products
    BY <1>2, Went, ControlIs DEF Reconcile, Phases, At, Cycling
  <2>2. \A q \in Products : Stands(q)
    BY AllStand DEF Reconcile, redis, history
  <2> QED
    BY <2>1, <2>2 DEF DrainOf, Drained, Rebuilding, Stands
<1> QED
  BY <1>1, <1>2 DEF Reconcile

LEMMA RenewDrains ==
  ASSUME TypeInv, NEW w \in Workers, DrainOf(w), Renew(w)
  PROVE  DrainOf(w)'
<1>1. CASE LeaseLost(w)
  BY <1>1, Stopped, RestDrains
<1>2. CASE ~LeaseLost(w)
  <2>1. /\ worker'[w].step = "next" /\ worker'[w].todo = worker[w].todo \ worker[w].product
        /\ worker'[w].product = {} /\ worker[w].step = "renew" /\ worker[w].todo \subseteq Products
    BY <1>2, WentOn, ControlIs DEF Renew, At, Cycling
  <2>2. \A q \in Products : Stands(q)
    BY AllStand DEF Renew, redis, history
  <2> QED
    BY <2>1, <2>2 DEF DrainOf, Drained, Rebuilding, Stands
<1> QED
  BY <1>1, <1>2

LEMMA EndDrains ==
  ASSUME TypeInv, NEW w \in Workers, DrainOf(w), WriteManifest(w) \/ Ready(w) \/ Unfence(w)
  PROVE  DrainOf(w)'
<1>1. CASE WriteManifest(w)
  <2>1. /\ worker'[w].step = "ready" /\ worker'[w].todo = {} /\ worker'[w].product = worker[w].product
        /\ worker[w].step = "next" /\ worker[w].todo = {}
    BY <1>1, Went DEF WriteManifest, Phases, At
  <2> QED
    BY <2>1 DEF DrainOf, Drained, Rebuilding
<1>2. CASE Ready(w)
  <2>1. /\ worker'[w].step = "unfence" /\ worker'[w].todo = worker[w].todo
        /\ worker'[w].product = worker[w].product /\ worker[w].step = "ready"
    BY <1>2, Went DEF Ready, Phases, At
  <2> QED
    BY <2>1 DEF DrainOf, Drained, Rebuilding
<1>3. CASE Unfence(w)
  BY <1>3, Stopped, RestDrains
<1> QED
  BY <1>1, <1>2, <1>3

LEMMA CycleDrains ==
  ASSUME TypeInv, NEW w \in Workers, DrainOf(w), Cycle(w)
  PROVE  DrainOf(w)'
BY ObserveDrains, InspectDrains, ClaimDrains, FenceDrains, DrainDrains, ExtendDrains, ListDrains, ReadSeedDrains,
   DeleteDrains, InstallDrains, ReconcileDrains, RenewDrains, EndDrains DEF Cycle

LEMMA InitAlone ==
  ASSUME Init
  PROVE  AloneInv /\ KeptInv
<1>1. OthersRest
  BY DEF Init, OthersRest
<1>2. DrainInv
  BY DEF Init, DrainInv, DrainOf, Resting, Drained, Rebuilding
<1>3. KeptInv
  BY NoStateIs, RangeIs DEF Init, KeptInv, Kept, Resting
<1> QED
  BY <1>1, <1>2, <1>3 DEF AloneInv

\* A step of the environment: no worker goes on, and what is shut stays shut.
LEMMA Environment ==
  ASSUME TypeInv, Alone, OthersRest, DrainInv, UNCHANGED <<worker, trial>>, \A p \in Products : Stands(p),
         \A w \in Workers, p \in Products : inflight'[w][p] # inflight[w][p] => w \in trial.workers
  PROVE  OthersRest' /\ DrainInv'
<1>1. OthersRest'
  BY DEF OthersRest
<1> QED
  BY <1>1, DrainStays DEF DrainInv

LEMMA NextAlone ==
  ASSUME TypeInv, AloneInv, [Next]_vars
  PROVE  AloneInv'
<1>0. Alone' => Alone /\ (Unraced' => Unraced)
  <2>1. trial' = trial
    BY NextIs, OutsideIs, PassingIs DEF vars, history, LoseAll, Mutate, ReadBootstrap, Bootstrap, LoseState,
       LoseStructure, Delete, Install, ReadSeed, Project
  <2> QED
    BY <2>1 DEF Alone, Unraced
<1> SUFFICES ASSUME Alone, Unraced, OthersRest, DrainInv
             PROVE  OthersRest' /\ DrainInv'
  BY <1>0 DEF AloneInv
<1>1. PICK w0 \in Workers : trial.workers = {w0}
  BY DEF Alone
<1>2. ASSUME NEW w \in Workers, Cycle(w)
      PROVE  OthersRest' /\ DrainInv'
  <2>1. w \in trial.workers /\ trial.workers = {w} /\ DrainOf(w)' /\ UNCHANGED <<trial, inflight>>
    BY <1>1, <1>2, Runs, CycleDrains DEF DrainInv, Cycle, Observe, Inspect, Claim, Fence, Drain, Extend, List,
       ReadSeed, Delete, Install, Reconcile, Renew, WriteManifest, Ready, Unfence, history, environment
  <2>2. OthersStay(w)
    BY <1>2, Passes, SeedRead, Went DEF Cycle, Delete, Phases
  <2> QED
    BY <2>1, <2>2, OneMoves
<1>3. ASSUME NEW w \in Workers, Error(w) \/ Crash(w)
      PROVE  OthersRest' /\ DrainInv'
  <2>1. w \in trial.workers /\ trial.workers = {w} /\ OthersStay(w) /\ worker'[w] = Resting
    BY <1>1, <1>3, Runs, Stopped
  <2>2. trial' = trial /\ \A v \in Workers \ {w} : inflight'[v] = inflight[v]
    BY <1>3 DEF Error, Crash, environment, TypeInv, ActorsInv
  <2> QED
    BY <2>1, <2>2, OneMoves, RestDrains
<1>4. CASE Outside \/ UNCHANGED vars
  <2>1. UNCHANGED <<fence, auctionFence, auth, stream, trial, worker>>
    BY <1>4 DEF vars, Outside, Begin, CreateRow, LockEnds, Fetch, LeaseEnds, Stall, redis, history, environment
  <2>2. ASSUME NEW w \in Workers, NEW p \in Products, inflight'[w][p] # inflight[w][p]
        PROVE  w \in trial.workers
    BY <1>4, <2>2 DEF vars, Outside, Begin, CreateRow, LockEnds, Fetch, LeaseEnds, Stall, environment,
       TypeInv, ActorsInv
  <2> QED
    BY <2>1, <2>2, AllStand, Environment
<1>5. ASSUME NEW w \in Workers, NEW p \in Products, Project(w, p)
      PROVE  OthersRest' /\ DrainInv'
  <2>1. \A q \in Products : Stands(q)
    BY <1>5, ProjectStands
  <2>2. w \in trial.workers /\ UNCHANGED <<worker, trial>>
    BY <1>5, Runs DEF Project, history
  <2>3. \A v \in Workers, q \in Products : inflight'[v][q] # inflight[v][q] => v = w
    BY <1>5, ProjectIs
  <2> QED
    BY <2>1, <2>2, <2>3, Environment
<1>6. CASE LoseAll \/ \E p \in Products : LoseState(p) \/ LoseStructure(p)
  <2>1. \A q \in Products : Stands(q)
    BY <1>6, LossStands
  <2>2. UNCHANGED <<worker, trial>>
    BY <1>6 DEF LoseAll, LoseState, LoseStructure
  <2>3. \A v \in Workers, q \in Products : inflight'[v][q] # inflight[v][q] => v \in trial.workers
    <3>1. CASE inflight' = inflight
      BY <3>1
    <3>2. CASE inflight' # inflight
      BY <1>6, <3>2 DEF LoseAll, LoseState, LoseStructure, environment, OthersRest
    <3> QED
      BY <3>1, <3>2
  <2> QED
    BY <2>1, <2>2, <2>3, Environment
<1>7. ASSUME NEW p \in Products, NEW k \in {"BID", "CLOSE"}, Mutate(p, k)
      PROVE  OthersRest' /\ DrainInv'
  <2>1. \A q \in Products : Stands(q)
    BY <1>7, MutateStands
  <2>2. UNCHANGED <<worker, trial, inflight>>
    BY <1>7 DEF Mutate, history
  <2> QED
    BY <2>1, <2>2, Environment
<1>8. ASSUME NEW p \in Products, ReadBootstrap(p) \/ Bootstrap(p)
      PROVE  OthersRest' /\ DrainInv'
  <2>1. \A q \in Products : Stands(q)
    BY <1>8, BootstrapStands, AllStand DEF ReadBootstrap, history
  <2>2. UNCHANGED <<worker, trial, inflight>>
    BY <1>8 DEF ReadBootstrap, Bootstrap, history
  <2> QED
    BY <2>1, <2>2, Environment
<1> QED
  BY <1>2, <1>3, <1>4, <1>5, <1>6, <1>7, <1>8 DEF Next, Outside

\* With one worker, whatever a rebuild deletes has been projected.
LEMMA NextDiscards ==
  ASSUME TypeInv, KeptInv, AloneInv, [Next]_vars, faults' = faults, Alone, Unraced, NEW p \in Products
  PROVE  Range(auth[p].log) \subseteq Range(auth'[p].log) \cup Range(log[p])
<1>0. auth[p].keys = "none" => Range(auth[p].log) = {}
  BY RangeIs DEF TypeInv, RedisInv, Coherent
<1>1. CASE UNCHANGED auth
  BY <1>1
<1>2. ASSUME NEW q \in Products, NEW k \in {"BID", "CLOSE"}, Mutate(q, k)
      PROVE  Range(auth[p].log) \subseteq Range(auth'[p].log)
  <2>1. /\ NewEvent(q, k) \in Event /\ auth[q].log \in Seq(Event)
        /\ auth'[q].log = Append(auth[q].log, NewEvent(q, k)) /\ (p # q => auth'[p] = auth[p])
    BY <1>2, MutateIs
  <2>2. Range(auth[q].log) \subseteq Range(auth'[q].log)
    BY <2>1, RangeAppend
  <2> QED
    BY <2>1, <2>2
<1>3. ASSUME NEW q \in Products, Bootstrap(q)
      PROVE  auth'[p] = auth[p] \/ auth[p].keys = "none"
  BY <1>3 DEF Bootstrap, MayBootstrap, TypeInv, RedisInv
<1>4. ASSUME NEW w \in Workers, Install(w)
      PROVE  auth'[p] = auth[p] \/ auth[p].keys = "none"
  BY <1>4 DEF Install
<1>5. ASSUME NEW w \in Workers, Delete(w)
      PROVE  auth'[p] = auth[p] \/ Range(auth[p].log) \subseteq Range(log[p])
  <2>1. CASE p \in worker[w].product
    <3>1. Still(p)
      BY <1>5, <2>1 DEF AloneInv, DrainInv, DrainOf, Drained, Rebuilding, Delete, At
    <3>2. Range(stream[p]) = {}
      BY <3>1, RangeIs DEF Still
    <3> QED
      BY <3>2 DEF KeptInv, Kept
  <2>2. CASE p \notin worker[w].product
    BY <1>5, <2>2 DEF Delete
  <2> QED
    BY <2>1, <2>2
<1>6. ~LoseAll /\ \A q \in Products : ~LoseState(q) /\ ~LoseStructure(q)
  BY CountedFaults, TrialIs DEF LoseAll, LoseState, LoseStructure, Fault, Trial
<1>7. UNCHANGED vars \/ Outside => UNCHANGED auth
  BY OutsideIs DEF vars, redis
<1>8. ASSUME NEW w \in Workers, NEW q \in Products, Passing(w) \/ ReadSeed(w, q) \/ Project(w, q) \/ ReadBootstrap(q)
      PROVE  UNCHANGED auth
  BY <1>8, PassingIs DEF ReadSeed, Project, ReadBootstrap
<1> QED
  BY <1>0, <1>1, <1>2, <1>3, <1>4, <1>5, <1>6, <1>7, <1>8, NextIs, PassingIs DEF ReadBootstrap

\* With one worker, and no auction created while Redis loses state, no step but a loss
\* forgets an event that PostgreSQL does not have: what a recovery deletes has been
\* drained behind its fence, and stays drained until it is rebuilt
\* (redis-authority.recovery.ts, redis-auction.bootstrap.ts).
THEOREM RebuildsDiscardNothing == Spec => RebuildDiscardsNothing
<1> DEFINE Inv == KeptInv /\ AloneInv
           Keeps == faults' = faults /\ Alone /\ Unraced =>
                      \A p \in Products : Range(auth[p].log) \subseteq Range(auth'[p].log) \cup Range(log[p])
<1>1. Init => Inv
  BY InitAlone
<1>2. TypeInv /\ Inv /\ [Next]_vars => Inv'
  BY NextKeeps, NextAlone
<1>3. TypeInv /\ Inv /\ [Next]_vars => [Keeps]_vars
  BY NextDiscards
<1> HIDE DEF Inv, Keeps
<1>4. Spec => [][Keeps]_vars
  BY <1>1, <1>2, <1>3, TypesHold, PTL DEF Spec
<1> QED
  BY <1>4 DEF Keeps, RebuildDiscardsNothing

-----------------------------------------------------------------------------
(* With one worker: Redis has the projected events and those to come.      *)

LEMMA JoinAppend ==
  ASSUME NEW S, NEW s \in Seq(S), NEW t \in Seq(S), NEW e \in S
  PROVE  s \o Append(t, e) = Append(s \o t, e) /\ Len(s \o t) = Len(s) + Len(t) /\ s \o t \in Seq(S)
<1>1. <<e>> \in Seq(S) /\ Append(t, e) = t \o <<e>> /\ s \o t \in Seq(S) /\ Append(s \o t, e) = (s \o t) \o <<e>>
  BY ConcatProperties, AppendIsConcat
<1>2. (s \o t) \o <<e>> = s \o (t \o <<e>>)
  BY <1>1, ConcatAssociative
<1> QED
  BY <1>1, <1>2, ConcatProperties

LEMMA JoinNext ==
  ASSUME NEW l \in Seq(Event), NEW s \in Seq(Event), NEW e \in Event
  PROVE  l \o Append(s, e) = Append(l \o s, e)
BY JoinAppend

LEMMA JoinMoves ==
  ASSUME NEW S, NEW s \in Seq(S), NEW t \in Seq(S), t # <<>>
  PROVE  Append(s, Head(t)) \o Tail(t) = s \o t
<1>1. Head(t) \in S /\ Tail(t) \in Seq(S) /\ <<Head(t)>> \in Seq(S)
  BY HeadTailProperties
<1>2. t = <<Head(t)>> \o Tail(t)
  <2>1. Len(t) \in Nat /\ Len(t) >= 1 /\ Head(t) = t[1]
    BY EmptySeq
  <2>2. SubSeq(t, 1, Len(t)) = <<t[1]>> \o SubSeq(t, 2, Len(t))
    BY <2>1, SubSeqRecursiveFirst
  <2> QED
    BY <2>1, <2>2, SubSeqFull, TailIsSubSeq
<1>3. Append(s, Head(t)) = s \o <<Head(t)>>
  BY <1>1, AppendIsConcat
<1>4. (s \o <<Head(t)>>) \o Tail(t) = s \o (<<Head(t)>> \o Tail(t))
  BY <1>1, ConcatAssociative
<1> QED
  BY <1>2, <1>3, <1>4

LEMMA JoinPrefix ==
  ASSUME NEW S, NEW s \in Seq(S), NEW t \in Seq(S)
  PROVE  IsPrefix(s, s \o t)
<1> DEFINE c == s \o t
           n == Len(s)
           m == Len(t)
<1>0. n \in Nat /\ m \in Nat /\ DOMAIN s = 1..n
  OBVIOUS
<1>1. c \in Seq(S) /\ Len(c) = n + m /\ \A i \in 1..n : c[i] = s[i] /\ s[i] \in S
  BY ConcatProperties
<1> HIDE DEF c, n, m
<1>2. SubSeq(c, 1, n) \in Seq(S) /\ Len(SubSeq(c, 1, n)) = n /\ \A i \in 1..n : SubSeq(c, 1, n)[i] = c[i]
  <2>1. \A i \in 1..n : c[i] \in S
    BY <1>1
  <2>2. /\ SubSeq(c, 1, n) \in Seq(S) /\ Len(SubSeq(c, 1, n)) = (IF 1 <= n THEN n - 1 + 1 ELSE 0)
        /\ \A i \in 1..n - 1 + 1 : SubSeq(c, 1, n)[i] = c[1 + i - 1]
    BY <1>0, <2>1, SubSeqProperties
  <2> QED
    BY <1>0, <2>2
<1>3. SubSeq(s, 1, n) = s
  BY SubSeqFull DEF n
<1>4. SubSeq(c, 1, n) = s
  BY <1>0, <1>1, <1>2, SeqEqual DEF n
<1> QED
  BY <1>0, <1>1, <1>3, <1>4 DEF IsPrefix, n, c

LEMMA WithoutHead ==
  ASSUME NEW s \in Seq(Event), s # <<>>, NEW n \in Nat, \A i \in DOMAIN s : s[i].at = n + i
  PROVE  Without(s, Head(s)) = Tail(s)
<1>1. Len(s) \in Nat /\ Len(s) >= 1 /\ Head(s) = s[1] /\ DOMAIN s = 1..Len(s)
  BY EmptySeq
<1>2. \A i \in DOMAIN s : s[i] = Head(s) => i = 1
  BY <1>1
<1>3. (CHOOSE i \in DOMAIN s : s[i] = Head(s)) = 1
  BY <1>1, <1>2
<1>4. Without(s, Head(s)) = RemoveAt(s, 1)
  BY <1>1, <1>3 DEF Without
<1>5. RemoveAt(s, 1) = SubSeq(s, 1, 0) \o SubSeq(s, 2, Len(s))
  BY DEF RemoveAt
<1>6. SubSeq(s, 1, 0) = <<>> /\ SubSeq(s, 2, Len(s)) = Tail(s) /\ Tail(s) \in Seq(Event)
  BY <1>1, SubSeqEmpty, TailIsSubSeq, HeadTailProperties
<1> QED
  BY <1>4, <1>5, <1>6, ConcatEmptySeq

\* The state of an auction with what is known of its events.
LEMMA Sequences ==
  ASSUME TypeInv, NEW p \in Products
  PROVE  /\ log[p] \in Seq(Event) /\ stream[p] \in Seq(Event) /\ auth[p].log \in Seq(Event)
         /\ Len(log[p]) \in Nat /\ Len(stream[p]) \in Nat /\ log[p] \o stream[p] \in Seq(Event)
         /\ Len(log[p] \o stream[p]) = Len(log[p]) + Len(stream[p]) /\ Coherent(auth[p], events)
         /\ Sound(log[p], events)
<1>1. log[p] \in Seq(Event) /\ stream[p] \in Seq(Event) /\ auth[p] \in RedisState /\ Coherent(auth[p], events)
  BY DEF TypeInv, RedisInv, RowsInv
<1> QED
  BY <1>1, ConcatProperties DEF RedisState, TypeInv, RowsInv

LEMMA FollowsStays ==
  ASSUME NEW p \in Products, Follows(p), auth'[p] = auth[p], stream'[p] = stream[p], log'[p] = log[p]
  PROVE  Follows(p)'
BY DEF Follows

LEMMA NextNumber ==
  ASSUME NEW l \in Seq(Event), NEW s \in Seq(Event), NEW e \in Event, e.at = Len(l \o s) + 1,
         \A i \in DOMAIN s : s[i].at = Len(l) + i
  PROVE  \A i \in DOMAIN Append(s, e) : Append(s, e)[i].at = Len(l) + i
<1>1. e.at = Len(l) + Len(s) + 1 /\ Len(l) \in Nat /\ Len(s) \in Nat
  <2>1. Len(l \o s) = Len(l) + Len(s)
    BY JoinAppend
  <2> QED
    BY <2>1
<1> TAKE i \in DOMAIN Append(s, e)
<1>2. CASE i = Len(s) + 1
  <2>1. Append(s, e)[i] = e
    BY <1>2, AppendIs
  <2> QED
    BY <1>1, <1>2, <2>1
<1>3. CASE i # Len(s) + 1
  <2>1. i \in DOMAIN s /\ Append(s, e)[i] = s[i]
    BY <1>3, AppendIs
  <2> QED
    BY <2>1
<1> QED
  BY <1>2, <1>3

LEMMA FlowStays ==
  ASSUME FlowInv, UNCHANGED <<auth, stream, log>>,
         \A v \in Workers, p \in Products : inflight'[v][p] \in {inflight[v][p], NoEvent},
         \A v \in Workers : worker'[v] = worker[v] \/ worker'[v].step \notin {"delete", "install"}
  PROVE  FlowInv'
BY DEF FlowInv, Follows

LEMMA MutateFlows ==
  ASSUME TypeInv, FlowInv, NEW p \in Products, NEW k \in {"BID", "CLOSE"}, Mutate(p, k)
  PROVE  FlowInv'
<1> DEFINE e == NewEvent(p, k)
           s == stream[p]
           l == log[p]
<1>0. auth[p].keys # "none" /\ UNCHANGED <<log, worker, inflight>>
  BY DEF Mutate, Writable, postgres
<1>1. /\ e \in Event /\ e.at = Len(auth[p].log) + 1
      /\ auth'[p].log = Append(auth[p].log, e) /\ stream'[p] = Append(s, e)
  BY MutateIs
<1>2. \A q \in Products \ {p} : auth'[q] = auth[q] /\ stream'[q] = stream[q]
  BY MutateIs
<1>3. s \in Seq(Event) /\ l \in Seq(Event)
  BY Sequences
<1>4. auth[p].log = l \o s /\ \A i \in DOMAIN s : s[i].at = Len(l) + i
  BY <1>0 DEF FlowInv, Follows
<1> HIDE DEF e, s, l
<1>5. auth'[p].log = l \o Append(s, e)
  <2>0. e \in Event
    BY <1>1
  <2>1. l \o Append(s, e) = Append(l \o s, e)
    BY <1>3, <2>0, JoinNext
  <2> QED
    BY <1>1, <1>4, <2>1
<1>6. \A i \in DOMAIN Append(s, e) : Append(s, e)[i].at = Len(l) + i
  <2>1. e.at = Len(l \o s) + 1
    BY <1>1, <1>4
  <2> QED
    BY <1>1, <1>3, <1>4, <2>1, NextNumber
<1>7. Follows(p)'
  BY <1>0, <1>1, <1>5, <1>6 DEF Follows, l
<1>8. ASSUME NEW q \in Products
      PROVE  Follows(q)'
  <2>1. CASE q # p
    <3>1. Follows(q) /\ auth'[q] = auth[q] /\ stream'[q] = stream[q] /\ log'[q] = log[q]
      BY <1>0, <1>2, <2>1 DEF FlowInv
    <3> QED
      BY <3>1, FollowsStays
  <2> QED
    BY <1>7, <2>1
<1>9. s # <<>> => Append(s, e) # <<>> /\ Head(Append(s, e)) = Head(s)
  BY <1>1, <1>3, HeadTailAppend, AppendIs
<1>10. ASSUME NEW v \in Workers, NEW q \in Products, inflight[v][q] # NoEvent
       PROVE  stream'[q] # <<>> /\ inflight[v][q] = Head(stream'[q])
  <2>1. stream[q] # <<>> /\ inflight[v][q] = Head(stream[q])
    BY <1>10 DEF FlowInv
  <2> QED
    BY <1>1, <1>2, <1>9, <2>1 DEF s
<1>11. ASSUME NEW v \in Workers, NEW q \in Products
       PROVE  /\ worker'[v].step \in {"delete", "install"} /\ q \in worker'[v].product => worker'[v].seed.log = log'[q]
              /\ inflight'[v][q] # NoEvent => stream'[q] # <<>> /\ inflight'[v][q] = Head(stream'[q])
  BY <1>0, <1>10 DEF FlowInv
<1> QED
  BY <1>8, <1>11 DEF FlowInv

LEMMA FetchFlows ==
  ASSUME TypeInv, FlowInv, NEW w \in Workers, NEW p \in Products, Fetch(w, p)
  PROVE  FlowInv'
<1>1. UNCHANGED <<auth, stream, log, worker>>
  BY DEF Fetch, redis, postgres
<1>2. stream[p] # <<>>
      /\ \A v \in Workers, q \in Products :
           inflight'[v][q] = IF v = w /\ q = p THEN Head(stream[p]) ELSE inflight[v][q]
  BY DEF Fetch, TypeInv, ActorsInv
<1>3. \A q \in Products : Follows(q)'
  BY <1>1, FollowsStays DEF FlowInv
<1>4. ASSUME NEW v \in Workers, NEW q \in Products
      PROVE  /\ worker'[v].step \in {"delete", "install"} /\ q \in worker'[v].product => worker'[v].seed.log = log'[q]
             /\ inflight'[v][q] # NoEvent => stream'[q] # <<>> /\ inflight'[v][q] = Head(stream'[q])
  <2>1. /\ worker[v].step \in {"delete", "install"} /\ q \in worker[v].product => worker[v].seed.log = log[q]
        /\ inflight[v][q] # NoEvent => stream[q] # <<>> /\ inflight[v][q] = Head(stream[q])
    BY DEF FlowInv
  <2> QED
    BY <1>1, <1>2, <2>1
<1> QED
  BY <1>3, <1>4 DEF FlowInv

\* What the projection of an entry does: it is the next one.
LEMMA Projects ==
  ASSUME TypeInv, FlowInv, NEW w \in Workers, NEW p \in Products, Project(w, p)
  PROVE  /\ stream[p] # <<>> /\ log'[p] = Append(log[p], Head(stream[p])) /\ stream'[p] = Tail(stream[p])
         /\ inflight[w][p] = Head(stream[p]) /\ Head(stream[p]) \in Event
<1> DEFINE e == inflight[w][p]
           s == stream[p]
           l == log[p]
<1>1. s # <<>> /\ e = Head(s)
  BY DEF Project, FlowInv
<1>2. s \in Seq(Event) /\ l \in Seq(Event) /\ Len(l) \in Nat /\ Sound(l, events)
  BY Sequences
<1>3. \A i \in DOMAIN s : s[i].at = Len(l) + i
  BY DEF FlowInv, Follows
<1>4. /\ \/ e \notin Range(l) /\ log'[p] = Append(l, e) /\ stream'[p] = Without(s, e)
         \/ e \in Range(l)
         \/ e.at # Len(l) + 1
  BY ProjectIs
<1> HIDE DEF e, s, l
<1>5. e \in Event /\ e.at = Len(l) + 1
  BY <1>1, <1>2, <1>3, HeadTailProperties, EmptySeq
<1>6. e \notin Range(l)
  BY <1>2, <1>5 DEF Range, Sound
<1>7. Without(s, e) = Tail(s)
  BY <1>1, <1>2, <1>3, WithoutHead
<1> QED
  BY <1>1, <1>4, <1>5, <1>6, <1>7 DEF e, s, l

LEMMA ProjectFlows ==
  ASSUME TypeInv, FlowInv, OthersRest, DrainInv, Alone, NEW w \in Workers, NEW p \in Products, Project(w, p)
  PROVE  FlowInv'
<1> DEFINE s == stream[p]
           l == log[p]
<1>0. trial.workers = {w}
  BY Runs DEF Alone
<1>1. UNCHANGED <<auth, worker>>
  BY DEF Project
<1>2. /\ s # <<>> /\ log'[p] = Append(l, Head(s)) /\ stream'[p] = Tail(s) /\ Head(s) \in Event
      /\ \A q \in Products \ {p} : log'[q] = log[q] /\ stream'[q] = stream[q]
  BY Projects, ProjectIs
<1>3. s \in Seq(Event) /\ l \in Seq(Event) /\ Len(l) \in Nat /\ Len(s) \in Nat
  BY Sequences
<1>4. /\ \A i \in DOMAIN s : s[i].at = Len(l) + i
      /\ auth[p].keys # "none" => auth[p].log = l \o s
  BY DEF FlowInv, Follows
<1>5. ASSUME NEW v \in Workers, NEW q \in Products, inflight'[v][q] # NoEvent
      PROVE  q # p /\ inflight'[v][q] = inflight[v][q]
  BY <1>0, <1>5, ProjectIs DEF OthersRest
<1>6. ASSUME NEW v \in Workers, NEW q \in Products, worker[v].step \in {"delete", "install"}, q \in worker[v].product
      PROVE  q # p
  BY <1>2, <1>6 DEF DrainInv, DrainOf, Drained, Rebuilding, Still
<1> HIDE DEF s, l
<1>7. /\ Len(log'[p]) = Len(l) + 1 /\ \A i \in DOMAIN Tail(s) : i + 1 \in DOMAIN s /\ Tail(s)[i] = s[i + 1] /\ i \in Nat
  BY <1>2, <1>3, AppendIs, HeadTailProperties
<1>8. \A i \in DOMAIN stream'[p] : stream'[p][i].at = Len(log'[p]) + i
  BY <1>2, <1>3, <1>4, <1>7
<1>9. log'[p] \o stream'[p] = l \o s
  BY <1>2, <1>3, JoinMoves
<1>10. Follows(p)'
  BY <1>1, <1>4, <1>8, <1>9 DEF Follows
<1>11. ASSUME NEW q \in Products
       PROVE  Follows(q)'
  <2>1. CASE q # p
    <3>1. Follows(q) /\ auth'[q] = auth[q] /\ stream'[q] = stream[q] /\ log'[q] = log[q]
      BY <1>1, <1>2, <2>1 DEF FlowInv
    <3> QED
      BY <3>1, FollowsStays
  <2> QED
    BY <1>10, <2>1
<1>12. ASSUME NEW v \in Workers, NEW q \in Products
       PROVE  /\ worker'[v].step \in {"delete", "install"} /\ q \in worker'[v].product => worker'[v].seed.log = log'[q]
              /\ inflight'[v][q] # NoEvent => stream'[q] # <<>> /\ inflight'[v][q] = Head(stream'[q])
  <2>1. /\ worker[v].step \in {"delete", "install"} /\ q \in worker[v].product => worker[v].seed.log = log[q]
        /\ inflight[v][q] # NoEvent => stream[q] # <<>> /\ inflight[v][q] = Head(stream[q])
    BY DEF FlowInv
  <2>2. q # p => log'[q] = log[q] /\ stream'[q] = stream[q]
    BY <1>2
  <2> QED
    BY <1>1, <1>5, <1>6, <2>1, <2>2
<1> QED
  BY <1>11, <1>12 DEF FlowInv

LEMMA LossFlows ==
  ASSUME TypeInv, FlowInv, "inflight" \notin trial.faults,
         LoseAll \/ \E p \in Products : LoseState(p) \/ LoseStructure(p)
  PROVE  FlowInv'
<1>0. auth \in [Products -> RedisState] /\ UNCHANGED <<log, worker>>
  BY DEF TypeInv, RedisInv, LoseAll, LoseState, LoseStructure, postgres
<1>1. CASE LoseAll
  <2>1. \A p \in Products : Follows(p)'
    BY <1>1 DEF LoseAll, Follows, NoState
  <2>2. \A v \in Workers, q \in Products : inflight'[v][q] = NoEvent
    BY <1>1 DEF LoseAll
  <2> QED
    BY <1>0, <2>1, <2>2 DEF FlowInv
<1>2. CASE \E p \in Products : LoseState(p) \/ LoseStructure(p)
  <2>1. UNCHANGED <<stream, inflight>>
    BY <1>2 DEF LoseState, LoseStructure, environment
  <2>2. \A q \in Products : auth'[q] = auth[q] \/ auth'[q].keys = "none"
                            \/ (auth[q].keys = "whole" /\ auth'[q].log = auth[q].log)
    <3>1. ASSUME NEW p \in Products, LoseState(p), NEW q \in Products
          PROVE  auth'[q] = auth[q] \/ auth'[q].keys = "none"
      BY <1>0, <3>1 DEF LoseState, NoState
    <3>2. ASSUME NEW p \in Products, LoseStructure(p), NEW q \in Products
          PROVE  auth'[q] = auth[q] \/ (auth[q].keys = "whole" /\ auth'[q].log = auth[q].log)
      BY <1>0, <3>2 DEF LoseStructure, RedisState
    <3> QED
      BY <1>2, <3>1, <3>2
  <2>3. ASSUME NEW q \in Products
        PROVE  Follows(q)'
    <3>1. auth'[q].keys # "none" => auth'[q].log = log[q] \o stream[q]
      BY <2>2 DEF FlowInv, Follows
    <3>2. \A i \in DOMAIN stream[q] : stream[q][i].at = Len(log[q]) + i
      BY DEF FlowInv, Follows
    <3> QED
      BY <1>0, <2>1, <3>1, <3>2 DEF Follows
  <2> QED
    BY <1>0, <2>1, <2>3 DEF FlowInv
<1> QED
  BY <1>1, <1>2

\* An auction created while nothing is lost has no events yet when it is installed.
LEMMA BootstrapIs ==
  ASSUME TypeInv, Unraced, HollowInv, NEW p \in Products, Bootstrap(p)
  PROVE  \/ auth' = auth
         \/ /\ auth' = [auth EXCEPT ![p] = seeds[p]] /\ auth[p].keys = "none" /\ NoLoss
            /\ log[p] = <<>> /\ stream[p] = <<>> /\ seeds[p].log = <<>>
<1>1. CASE ~MayBootstrap(p)
  BY <1>1 DEF Bootstrap
<1>2. CASE MayBootstrap(p)
  <2>1. NoLoss
    BY DEF Bootstrap, TypeInv, CountsInv, Unraced, NoLoss
  <2>2. HollowOf(p) /\ auth[p].keys = "none" /\ Unfenced(p)
    BY <1>2, <2>1 DEF HollowInv, MayBootstrap
  <2>3. log[p] = <<>> /\ stream[p] = <<>> /\ seeds[p].log = <<>>
    BY <2>2 DEF HollowOf, Hollow, Guarded, Unfenced
  <2> QED
    BY <1>2, <2>1, <2>2, <2>3 DEF Bootstrap
<1> QED
  BY <1>1, <1>2

LEMMA BootstrapFlows ==
  ASSUME TypeInv, FlowInv, Unraced, HollowInv, NEW p \in Products, Bootstrap(p)
  PROVE  FlowInv'
<1>0. UNCHANGED <<stream, log, worker, inflight>>
  BY DEF Bootstrap, postgres
<1>1. CASE auth' = auth
  BY <1>0, <1>1, FlowStays
<1>2. CASE auth' # auth
  <2>1. /\ auth' = [auth EXCEPT ![p] = seeds[p]]
        /\ log[p] = <<>> /\ stream[p] = <<>> /\ seeds[p].log = <<>>
    BY <1>2, BootstrapIs
  <2>2. auth \in [Products -> RedisState] /\ <<>> \o <<>> = <<>>
    BY ConcatEmptySeq DEF TypeInv, RedisInv
  <2>3. Follows(p)'
    BY <1>0, <2>1, <2>2 DEF Follows
  <2>4. \A q \in Products \ {p} : auth'[q] = auth[q]
    BY <2>1, <2>2
  <2>5. \A q \in Products : Follows(q)'
    BY <1>0, <2>3, <2>4, FollowsStays DEF FlowInv
  <2> QED
    BY <1>0, <2>5 DEF FlowInv
<1> QED
  BY <1>1, <1>2

LEMMA ReadSeedFlows ==
  ASSUME TypeInv, FlowInv, NEW w \in Workers, NEW p \in Products, ReadSeed(w, p)
  PROVE  FlowInv'
<1>1. UNCHANGED <<auth, stream, log, inflight>>
  BY DEF ReadSeed, postgres, environment
<1>2. /\ OthersStay(w) /\ worker'[w].product = {p}
      /\ worker'[w].step = "delete" => worker'[w].seed.log = log[p]
      /\ worker'[w].step \in {"delete", "reconcile"}
  BY SeedRead, SeedIs
<1>3. \A q \in Products : Follows(q)'
  BY <1>1, FollowsStays DEF FlowInv
<1>4. ASSUME NEW v \in Workers, NEW q \in Products, worker'[v].step \in {"delete", "install"}, q \in worker'[v].product
      PROVE  worker'[v].seed.log = log'[q]
  <2>1. CASE v = w
    BY <1>1, <1>2, <1>4, <2>1
  <2>2. CASE v # w
    BY <1>1, <1>2, <1>4, <2>2 DEF FlowInv, OthersStay
  <2> QED
    BY <2>1, <2>2
<1> QED
  BY <1>1, <1>3, <1>4 DEF FlowInv

LEMMA DeleteFlows ==
  ASSUME TypeInv, FlowInv, NEW w \in Workers, Delete(w)
  PROVE  FlowInv'
<1>1. UNCHANGED <<stream, log, inflight>>
  BY DEF Delete, postgres, environment
<1>2. /\ OthersStay(w) /\ worker'[w].product = worker[w].product /\ worker'[w].seed = worker[w].seed
      /\ worker[w].step = "delete"
  BY Went DEF Delete, Phases, At
<1>3. ASSUME NEW q \in Products
      PROVE  Follows(q)'
  <2>1. CASE q \in worker[w].product
    <3>1. auth'[q].keys = "none"
      BY <2>1 DEF Delete, NoState
    <3> QED
      BY <1>1, <3>1 DEF FlowInv, Follows
  <2>2. CASE q \notin worker[w].product
    <3>1. auth'[q] = auth[q]
      BY <2>2 DEF Delete
    <3> QED
      BY <1>1, <3>1, FollowsStays DEF FlowInv
  <2> QED
    BY <2>1, <2>2
<1>4. ASSUME NEW v \in Workers, NEW q \in Products, worker'[v].step \in {"delete", "install"}, q \in worker'[v].product
      PROVE  worker'[v].seed.log = log'[q]
  BY <1>1, <1>2, <1>4 DEF FlowInv, OthersStay
<1> QED
  BY <1>1, <1>3, <1>4 DEF FlowInv

LEMMA InstallFlows ==
  ASSUME TypeInv, FlowInv, DrainInv, NEW w \in Workers, Install(w)
  PROVE  FlowInv'
<1>1. UNCHANGED <<stream, log, inflight>> /\ worker[w].step = "install"
  BY DEF Install, postgres, environment, At
<1>2. OthersStay(w) /\ worker'[w].step \notin {"delete", "install"}
  BY Passes
<1>3. ASSUME NEW q \in Products
      PROVE  Follows(q)'
  <2>1. CASE q \in worker[w].product
    <3>1. auth'[q] = worker[w].seed /\ worker[w].seed.log = log[q] /\ stream[q] = <<>>
      BY <1>1, <2>1 DEF Install, FlowInv, DrainInv, DrainOf, Drained, Rebuilding, Still
    <3>2. log[q] \o <<>> = log[q]
      BY Sequences, ConcatEmptySeq
    <3> QED
      BY <1>1, <3>1, <3>2 DEF Follows
  <2>2. CASE q \notin worker[w].product
    <3>1. auth'[q] = auth[q]
      BY <2>2 DEF Install
    <3> QED
      BY <1>1, <3>1, FollowsStays DEF FlowInv
  <2> QED
    BY <2>1, <2>2
<1> QED
  BY <1>1, <1>2, <1>3 DEF FlowInv, OthersStay

\* The steps of the environment and of a cycle that move no event.
LEMMA OthersFlow ==
  ASSUME TypeInv, FlowInv, [Next]_vars,
         UNCHANGED vars \/ Outside \/ (\E w \in Workers : Passing(w)) \/ \E p \in Products : ReadBootstrap(p)
  PROVE  FlowInv'
<1>1. ASSUME NEW w \in Workers, NEW p \in Products, Fetch(w, p)
      PROVE  FlowInv'
  BY <1>1, FetchFlows
<1>2. CASE \/ UNCHANGED vars \/ LeaseEnds \/ Stall
           \/ \E p \in Products : Begin(p) \/ CreateRow(p) \/ LockEnds(p) \/ ReadBootstrap(p)
  <2>1. UNCHANGED <<auth, stream, log, inflight, worker>>
    BY <1>2 DEF vars, LeaseEnds, Stall, Begin, CreateRow, LockEnds, ReadBootstrap, redis, postgres, environment
  <2> QED
    BY <2>1, FlowStays
<1>3. ASSUME NEW w \in Workers, Passing(w)
      PROVE  FlowInv'
  <2>1. UNCHANGED <<auth, stream, log>> /\ \A v \in Workers : worker'[v] = worker[v] \/ worker'[v].step \notin {"delete", "install"}
    BY <1>3, PassingIs DEF OthersStay
  <2>2. \A v \in Workers, p \in Products : inflight'[v][p] \in {inflight[v][p], NoEvent}
    <3>1. CASE Crash(w)
      BY <3>1 DEF Crash, TypeInv, ActorsInv
    <3>2. CASE ~Crash(w)
      <4>1. inflight' = inflight
        BY <1>3, <3>2 DEF Passing, Observe, Inspect, Claim, Fence, Drain, Extend, List, Reconcile, Renew,
           WriteManifest, Ready, Unfence, Error, environment
      <4> QED
        BY <4>1
    <3> QED
      BY <3>1, <3>2
  <2> QED
    BY <2>1, <2>2, FlowStays
<1> QED
  BY <1>1, <1>2, <1>3 DEF Outside

LEMMA NextFlows ==
  ASSUME TypeInv, FlowInv, HollowInv, OthersRest, DrainInv, Alone, Unraced, "inflight" \notin trial.faults, [Next]_vars
  PROVE  FlowInv'
BY NextIs, OthersFlow, MutateFlows, BootstrapFlows, LossFlows, ReadSeedFlows, DeleteFlows, InstallFlows, ProjectFlows

-----------------------------------------------------------------------------
(* With one worker and no loss of state: an auction that has events and no *)
(* state is being rebuilt, behind its fence.                               *)

LEMMA GuardStays ==
  ASSUME NEW p, Guarded(p), auctionFence \subseteq auctionFence', fence => fence', UNCHANGED trial,
         rows \subseteq rows', log'[p] = log[p]
  PROVE  Guarded(p)'
BY DEF Guarded, activeProductIds, RowStatus, OpeningStatus, Ended

LEMMA HollowStays ==
  ASSUME NEW p, HollowOf(p), auth'[p] = auth[p], stream'[p] = stream[p], log'[p] = log[p], seeds'[p] = seeds[p],
         Hollow(p) /\ Guarded(p) => Guarded(p)'
  PROVE  HollowOf(p)' /\ Hollow(p)' = Hollow(p)
BY DEF HollowOf, Hollow

LEMMA RebuildStays ==
  ASSUME TypeInv, NEW w \in Workers, RebuildOf(w), worker'[w] = worker[w], UNCHANGED <<fence, auctionFence>>,
         \A p \in Products : Hollow(p)' => Hollow(p), \A p \in Drained(w) : Guarded(p) => Guarded(p)'
  PROVE  RebuildOf(w)'
<1>1. worker[w].product \subseteq Products /\ Scope(w) \subseteq Products
  BY ControlIs DEF Scope, Cycling
<1>2. Scope(w)' = Scope(w) /\ Drained(w)' = Drained(w) /\ Rebuilding(w)' = Rebuilding(w) /\ Global(w)' = Global(w)
      /\ Fencing(w)' = Fencing(w)
  BY DEF Scope, Drained, Rebuilding, Global, Fencing
<1>3. Rebuilding(w)' => \A p \in Drained(w)' : Guarded(p)'
  BY <1>2 DEF RebuildOf
<1>4. (Rebuilding(w) \/ worker[w].step \in {"ready", "unfence"})' =>
        \A p \in Scope(w)' : Hollow(p)' => p \in worker'[w].todo \/ (Global(w)' /\ p \in auctionFence')
  BY <1>1, <1>2 DEF RebuildOf
<1>5. worker'[w].step = "renew" => \A p \in worker'[w].product : ~Hollow(p)'
  BY <1>1 DEF RebuildOf
<1> QED
  BY <1>2, <1>3, <1>4, <1>5 DEF RebuildOf

LEMMA RestRebuilds ==
  ASSUME NEW w \in Workers, worker'[w] = Resting
  PROVE  RebuildOf(w)'
BY DEF RebuildOf, Resting, Fencing, Rebuilding

\* A step that writes no state of an auction leaves its guard.
LEMMA HollowPasses ==
  ASSUME \A p \in Products : HollowOf(p), UNCHANGED <<auth, stream, log, seeds, trial>>,
         auctionFence \subseteq auctionFence', fence => fence', rows \subseteq rows'
  PROVE  /\ \A p \in Products : HollowOf(p)' /\ Hollow(p)' = Hollow(p)
         /\ \A p \in Products : Guarded(p) => Guarded(p)'
BY GuardStays, HollowStays

LEMMA EarlyRebuild ==
  ASSUME TypeInv, NEW w \in Workers, RebuildOf(w), Observe(w) \/ Inspect(w) \/ Claim(w) \/ Fence(w)
  PROVE  RebuildOf(w)'
<1>1. CASE Observe(w)
  BY <1>1, Observed DEF RebuildOf, SameRecovery, Global, Fencing, Rebuilding
<1>2. CASE Inspect(w) \/ Claim(w)
  <2>1. CASE worker'[w] = Resting
    BY <2>1, RestRebuilds
  <2>2. CASE worker'[w] # Resting
    BY <1>2, <2>2, Inspected, Claimed DEF RebuildOf, SameRecovery, Global, Fencing, Rebuilding
  <2> QED
    BY <2>1, <2>2
<1>3. CASE Fence(w)
  <2>1. worker'[w].step = "drain" /\ SameRecovery(w)
    BY <1>3, Went DEF Fence, Phases
  <2> QED
    BY <1>3, <2>1 DEF Fence, RebuildOf, SameRecovery, Global, Fencing, Rebuilding
<1> QED
  BY <1>1, <1>2, <1>3

LEMMA ListRebuilds ==
  ASSUME TypeInv, NEW w \in Workers, RebuildOf(w), \A p \in Products : HollowOf(p), List(w)
  PROVE  RebuildOf(w)'
<1>1. CASE LeaseLost(w)
  BY <1>1, Stopped, RestRebuilds
<1>2. CASE ~LeaseLost(w)
  <2>1. /\ worker'[w].step = "next" /\ SameRecovery(w) /\ worker[w].step = "list"
        /\ worker'[w].todo = (IF Global(w) THEN activeProductIds ELSE worker[w].targets)
    BY <1>2, Listed DEF List, At
  <2>2. Scope(w)' = Scope(w) /\ Global(w)' = Global(w) /\ Scope(w) \subseteq Products
    BY <2>1, SameScope
  <2>3. UNCHANGED <<auth, stream, log, seeds, trial, fence, auctionFence, rows>>
    BY <1>2, Listed DEF List, redis, history, environment, Renewed
  <2>4. \A p \in Products : (Hollow(p)' = Hollow(p)) /\ (Guarded(p) => Guarded(p)')
    BY <2>3, HollowPasses
  <2>5. \A p \in worker'[w].todo : Guarded(p)
    BY <2>1 DEF RebuildOf, Fencing, Guarded
  <2>6. worker'[w].todo \subseteq Products
    BY <2>1, ActiveIs, ControlIs DEF Cycling
  <2>7. \A p \in Scope(w) : Hollow(p) => p \in worker'[w].todo \/ (Global(w) /\ p \in auctionFence)
    BY <2>1, <2>2 DEF HollowOf, Guarded, Scope
  <2> QED
    BY <2>1, <2>2, <2>3, <2>4, <2>5, <2>6, <2>7 DEF RebuildOf, Fencing, Rebuilding, Drained, SameRecovery
<1> QED
  BY <1>1, <1>2

\* The steps after a recovery is fenced that leave its state as it is.
LEMMA LateRebuild ==
  ASSUME TypeInv, NEW w \in Workers, RebuildOf(w), \A p \in Products : HollowOf(p),
         Drain(w) \/ Extend(w) \/ Reconcile(w) \/ WriteManifest(w) \/ Ready(w)
  PROVE  RebuildOf(w)'
<1>1. UNCHANGED <<auth, stream, log, seeds, trial, fence, auctionFence, rows>>
  BY DEF Drain, Extend, Reconcile, WriteManifest, Ready, redis, history, environment, postgres, Renewed, LeaseLost, GiveUp
<1>2. \A p \in Products : (Hollow(p)' = Hollow(p)) /\ (Guarded(p) => Guarded(p)')
  <2>1. auctionFence \subseteq auctionFence' /\ (fence => fence') /\ rows \subseteq rows'
    BY <1>1
  <2> QED
    BY <1>1, <2>1, HollowPasses
<1>3. CASE Drain(w) /\ UNCHANGED worker
  BY <1>1, <1>2, <1>3, RebuildStays DEF Drain, At, Drained
<1>4. CASE worker'[w] = Resting
  BY <1>4, RestRebuilds
<1>5. CASE worker'[w] # Resting /\ ~(Drain(w) /\ UNCHANGED worker)
  <2>1. PICK s \in {"extend", "list", "renew", "ready", "unfence"} : Goto(w, s)
    BY <1>5, Stopped, GaveUp DEF Drain, Extend, Reconcile, WriteManifest, Ready, Becomes
  <2>2. /\ SameRecovery(w) /\ worker'[w].step = s /\ worker'[w].todo = worker[w].todo
        /\ worker'[w].product = worker[w].product /\ worker[w].product \subseteq Products
        /\ Scope(w)' = Scope(w) /\ Global(w)' = Global(w) /\ Scope(w) \subseteq Products
        /\ worker[w].todo \subseteq Products
    BY <2>1, Went, SameScope, ControlIs DEF Phases, Cycling
  <2>3. Fencing(w) /\ Fencing(w)'
    BY <2>2, <1>5 DEF Fencing, Drain, Extend, Reconcile, WriteManifest, Ready, At
  <2>4. CASE Drain(w) \/ Extend(w)
    <3>1. s \in {"extend", "list"}
      BY <2>2, <2>4, <1>5, Went, Stopped DEF Drain, Extend, Phases
    <3> QED
      BY <1>1, <2>2, <2>3, <3>1 DEF RebuildOf, Rebuilding, SameRecovery
  <2>5. CASE Reconcile(w)
    <3>1. Goto(w, "renew") /\ worker[w].step = "reconcile" /\ \A p \in worker[w].product : Converged(p)
      BY <1>5, <2>5, GaveUp DEF Reconcile, At, Becomes
    <3>2. worker'[w].step = "renew"
      BY <3>1, Went DEF Phases
    <3>3. \A p \in worker[w].product : ~Hollow(p)
      BY <3>1 DEF Converged, Hollow
    <3>4. Drained(w)' = worker[w].todo \ worker[w].product /\ Drained(w) = worker[w].todo \ worker[w].product
      BY <2>2, <3>1, <3>2 DEF Drained
    <3> QED
      BY <1>1, <1>2, <2>2, <2>3, <3>1, <3>2, <3>3, <3>4 DEF RebuildOf, Rebuilding, SameRecovery
  <2>6. CASE WriteManifest(w) \/ Ready(w)
    <3>1. s \in {"ready", "unfence"} /\ worker[w].step \in {"next", "ready"}
      BY <2>2, <2>6, Went DEF WriteManifest, Ready, Phases, At
    <3> QED
      BY <1>1, <1>2, <2>2, <2>3, <3>1 DEF RebuildOf, Rebuilding, SameRecovery
  <2> QED
    BY <2>4, <2>5, <2>6
<1> QED
  BY <1>3, <1>4, <1>5

LEMMA ReadSeedRebuilds ==
  ASSUME TypeInv, NEW w \in Workers, RebuildOf(w), \A p \in Products : HollowOf(p),
         NEW p \in Products, ReadSeed(w, p)
  PROVE  RebuildOf(w)' /\ \A q \in Products : HollowOf(q)'
<1>1. UNCHANGED <<auth, stream, log, seeds, trial, fence, auctionFence, rows>>
  BY DEF ReadSeed, history, environment, postgres
<1>2. \A q \in Products : HollowOf(q)' /\ (Hollow(q)' = Hollow(q)) /\ (Guarded(q) => Guarded(q)')
  BY <1>1, HollowPasses
<1>3. /\ SameRecovery(w) /\ worker'[w].todo = worker[w].todo /\ worker'[w].product = {p}
      /\ worker'[w].step \in {"delete", "reconcile"} /\ worker[w].step = "next"
  BY SeedRead DEF ReadSeed, At
<1>4. Scope(w)' = Scope(w) /\ Global(w)' = Global(w) /\ Scope(w) \subseteq Products /\ worker[w].todo \subseteq Products
  BY <1>3, SameScope, ControlIs DEF Cycling
<1>5. Drained(w)' \subseteq worker[w].todo /\ Drained(w) = worker[w].todo
  BY <1>3 DEF Drained
<1>6. Rebuilding(w) /\ Rebuilding(w)' /\ Fencing(w) /\ Fencing(w)' /\ worker'[w].step # "renew"
  BY <1>3 DEF Rebuilding, Fencing
<1> QED
  BY <1>1, <1>2, <1>3, <1>4, <1>5, <1>6 DEF RebuildOf, SameRecovery

LEMMA DeleteRebuilds ==
  ASSUME TypeInv, NEW w \in Workers, RebuildOf(w), DrainOf(w), \A p \in Products : HollowOf(p), Delete(w)
  PROVE  RebuildOf(w)' /\ \A q \in Products : HollowOf(q)'
<1>1. UNCHANGED <<stream, log, seeds, trial, fence, auctionFence, rows>>
  BY DEF Delete, history, environment, postgres
<1>2. /\ SameRecovery(w) /\ worker'[w].todo = worker[w].todo /\ worker'[w].product = worker[w].product
      /\ worker'[w].step = "install" /\ worker[w].step = "delete"
  BY Went DEF Delete, Phases, At
<1>3. Scope(w)' = Scope(w) /\ Global(w)' = Global(w) /\ Scope(w) \subseteq Products
      /\ worker[w].todo \subseteq Products /\ worker[w].product \subseteq worker[w].todo
  BY <1>2, SameScope, ControlIs DEF Cycling, DrainOf, Rebuilding
<1>4. Drained(w)' = worker[w].todo /\ Drained(w) = worker[w].todo
  BY <1>2 DEF Drained
<1>5. Rebuilding(w) /\ Rebuilding(w)' /\ Fencing(w) /\ Fencing(w)'
  BY <1>2 DEF Rebuilding, Fencing
<1>6. ASSUME NEW q \in Products
      PROVE  Guarded(q) => Guarded(q)'
  BY <1>1, GuardStays
<1>7. ASSUME NEW q \in worker[w].todo
      PROVE  Guarded(q) /\ stream[q] = <<>>
  BY <1>4, <1>5 DEF RebuildOf, DrainOf, Still
<1>8. ASSUME NEW q \in Products, q \notin worker[w].product
      PROVE  HollowOf(q)' /\ (Hollow(q)' = Hollow(q))
  <2>1. auth'[q] = auth[q]
    BY <1>8 DEF Delete
  <2> QED
    BY <1>1, <1>6, <2>1, HollowStays
<1>9. ASSUME NEW q \in worker[w].product
      PROVE  HollowOf(q)'
  BY <1>1, <1>3, <1>6, <1>7 DEF HollowOf
<1>10. \A q \in Scope(w)' : Hollow(q)' => q \in worker'[w].todo \/ (Global(w)' /\ q \in auctionFence')
  BY <1>1, <1>2, <1>3, <1>5, <1>8 DEF RebuildOf
<1>11. \A q \in Drained(w)' : Guarded(q)'
  BY <1>3, <1>4, <1>6, <1>7
<1> QED
  BY <1>1, <1>2, <1>3, <1>5, <1>8, <1>9, <1>10, <1>11 DEF RebuildOf, SameRecovery

LEMMA InstallRebuilds ==
  ASSUME TypeInv, NEW w \in Workers, RebuildOf(w), DrainOf(w), \A p \in Products : HollowOf(p), Install(w)
  PROVE  RebuildOf(w)' /\ \A q \in Products : HollowOf(q)'
<1>1. UNCHANGED <<stream, log, seeds, trial, fence, auctionFence, rows>>
  BY DEF Install, history, environment, postgres
<1>2. /\ SameRecovery(w) /\ worker'[w].todo = worker[w].todo /\ worker'[w].product = worker[w].product
      /\ worker'[w].step = "reconcile" /\ worker[w].step = "install"
  BY Went DEF Install, Phases, At
<1>3. Scope(w)' = Scope(w) /\ Global(w)' = Global(w) /\ Scope(w) \subseteq Products
      /\ worker[w].todo \subseteq Products /\ worker[w].product \subseteq worker[w].todo
  BY <1>2, SameScope, ControlIs DEF Cycling, DrainOf, Rebuilding
<1>4. Drained(w)' \subseteq worker[w].todo /\ Drained(w) = worker[w].todo
  BY <1>2 DEF Drained
<1>5. Rebuilding(w) /\ Rebuilding(w)' /\ Fencing(w) /\ Fencing(w)'
  BY <1>2 DEF Rebuilding, Fencing
<1>6. ASSUME NEW q \in Products
      PROVE  Guarded(q) => Guarded(q)'
  BY <1>1, GuardStays
<1>7. ASSUME NEW q \in Products, q \notin worker[w].product
      PROVE  HollowOf(q)' /\ (Hollow(q)' = Hollow(q))
  <2>1. auth'[q] = auth[q]
    BY <1>7 DEF Install
  <2> QED
    BY <1>1, <1>6, <2>1, HollowStays
<1>8. ASSUME NEW q \in worker[w].product
      PROVE  HollowOf(q)' /\ ~Hollow(q)'
  <2>1. auth'[q].keys = "whole"
    BY <1>2, <1>3 DEF Install, DrainOf
  <2> QED
    BY <1>1, <1>3, <2>1 DEF HollowOf, Hollow
<1>9. \A q \in Scope(w)' : Hollow(q)' => q \in worker'[w].todo \/ (Global(w)' /\ q \in auctionFence')
  BY <1>1, <1>2, <1>3, <1>5, <1>7, <1>8 DEF RebuildOf
<1>10. \A q \in Drained(w)' : Guarded(q)'
  BY <1>3, <1>4, <1>5, <1>6 DEF RebuildOf
<1> QED
  BY <1>1, <1>2, <1>3, <1>5, <1>7, <1>8, <1>9, <1>10 DEF RebuildOf, SameRecovery

LEMMA RenewRebuilds ==
  ASSUME TypeInv, NEW w \in Workers, RebuildOf(w), \A p \in Products : HollowOf(p), Renew(w)
  PROVE  RebuildOf(w)'
<1>1. CASE LeaseLost(w)
  BY <1>1, Stopped, RestRebuilds
<1>2. CASE ~LeaseLost(w)
  <2>1. UNCHANGED <<auth, stream, log, seeds, trial, fence, auctionFence, rows>>
    BY <1>2, WentOn DEF Renew, redis, history, environment, Renewed
  <2>2. \A q \in Products : (Hollow(q)' = Hollow(q)) /\ (Guarded(q) => Guarded(q)')
    BY <2>1, HollowPasses
  <2>3. /\ SameRecovery(w) /\ worker'[w].todo = worker[w].todo \ worker[w].product /\ worker'[w].product = {}
        /\ worker'[w].step = "next" /\ worker[w].step = "renew"
    BY <1>2, WentOn DEF Renew, At
  <2>4. Scope(w)' = Scope(w) /\ Global(w)' = Global(w) /\ Scope(w) \subseteq Products /\ worker[w].todo \subseteq Products
    BY <2>3, SameScope, ControlIs DEF Cycling
  <2>5. Drained(w)' = worker[w].todo \ worker[w].product /\ Drained(w) = worker[w].todo \ worker[w].product
    BY <2>3 DEF Drained
  <2>6. Rebuilding(w) /\ Rebuilding(w)' /\ Fencing(w) /\ Fencing(w)'
    BY <2>3 DEF Rebuilding, Fencing
  <2>7. \A q \in worker[w].product : ~Hollow(q)
    BY <2>3 DEF RebuildOf
  <2> QED
    BY <2>1, <2>2, <2>3, <2>4, <2>5, <2>6, <2>7 DEF RebuildOf, SameRecovery
<1> QED
  BY <1>1, <1>2

LEMMA UnfenceHollow ==
  ASSUME TypeInv, NEW w \in Workers, RebuildOf(w), DrainOf(w), Unfence(w), NEW p \in Products, HollowOf(p)
  PROVE  HollowOf(p)'
<1>1. UNCHANGED <<auth, stream, log, seeds, trial, rows>> /\ worker[w].step = "unfence"
  BY DEF Unfence, redis, history, environment, postgres, At
<1>2. worker[w].todo = {} /\ fence' = (fence /\ ~Global(w)) /\ auctionFence' = auctionFence \ worker[w].targets
  BY <1>1 DEF Unfence, DrainOf
<1>3. ASSUME Hollow(p), Guarded(p)
      PROVE  Guarded(p)'
  <2>1. CASE Global(w)
    BY <1>1, <1>2, <1>3, <2>1 DEF RebuildOf, Scope, Guarded
  <2>2. CASE ~Global(w)
    <3>1. p \notin worker[w].targets
      BY <1>1, <1>2, <1>3, <2>2 DEF RebuildOf, Scope
    <3>2. auctionFence' \subseteq auctionFence /\ fence' = fence
      BY <1>2, <2>2 DEF TypeInv, RedisInv
    <3>3. activeProductIds' = activeProductIds
      BY <1>1 DEF activeProductIds, RowStatus, OpeningStatus, Ended
    <3> QED
      BY <1>2, <1>3, <3>1, <3>2, <3>3 DEF Guarded
  <2> QED
    BY <2>1, <2>2
<1> QED
  BY <1>1, <1>3, HollowStays

\* A step of the environment, behind the fences.
LEMMA EnvironmentHollow ==
  ASSUME TypeInv, \A p \in Products : HollowOf(p), \A w \in Workers : RebuildOf(w),
         UNCHANGED <<fence, auctionFence, worker>>, \A p \in Products : HollowOf(p)' /\ (Hollow(p)' => Hollow(p)),
         \A w \in Workers : \A p \in Drained(w) : Guarded(p) => Guarded(p)'
  PROVE  (\A p \in Products : HollowOf(p)') /\ \A w \in Workers : RebuildOf(w)'
BY RebuildStays

LEMMA OutsideHollow ==
  ASSUME TypeInv, \A p \in Products : HollowOf(p), \A w \in Workers : RebuildOf(w), UNCHANGED vars \/ Outside
  PROVE  (\A p \in Products : HollowOf(p)') /\ \A w \in Workers : RebuildOf(w)'
<1>1. UNCHANGED <<auth, stream, log, seeds, trial, fence, auctionFence, worker>> /\ rows \subseteq rows'
  BY OutsideIs DEF vars, Outside, Begin, CreateRow, LockEnds, Fetch, LeaseEnds, Stall, redis, history, environment, postgres
<1>2. \A w \in Workers : Drained(w) \subseteq Products
  BY ControlIs DEF Drained, Scope, Cycling
<1>3. \A p \in Products : HollowOf(p)' /\ (Hollow(p)' = Hollow(p)) /\ (Guarded(p) => Guarded(p)')
  BY <1>1, HollowPasses
<1> QED
  BY <1>1, <1>2, <1>3, EnvironmentHollow

LEMMA ApiHollow ==
  ASSUME TypeInv, \A p \in Products : HollowOf(p), \A w \in Workers : RebuildOf(w), NoLoss, Unraced,
         NEW p \in Products, Bootstrap(p) \/ ReadBootstrap(p) \/ \E k \in {"BID", "CLOSE"} : Mutate(p, k)
  PROVE  (\A q \in Products : HollowOf(q)') /\ \A w \in Workers : RebuildOf(w)'
<1>1. UNCHANGED <<log, trial, fence, auctionFence, worker, rows>>
  BY DEF Bootstrap, ReadBootstrap, Mutate, history, postgres
<1>2. \A q \in Products : Guarded(q) => Guarded(q)'
  BY <1>1, GuardStays
<1>3. \A w \in Workers : Drained(w) \subseteq Products
  BY ControlIs DEF Drained, Scope, Cycling
<1>4. CASE Bootstrap(p)
  <2>1. /\ UNCHANGED stream /\ \A q \in Products : seeds'[q] = IF q = p THEN NoState ELSE seeds[q]
    BY <1>4 DEF Bootstrap, TypeInv, ActorsInv
  <2>2. \A q \in Products : auth'[q] = auth[q] \/ (log[q] = <<>> /\ stream[q] = <<>>)
    <3>1. auth \in [Products -> RedisState]
      BY DEF TypeInv, RedisInv
    <3> QED
      BY <1>4, <3>1, BootstrapIs DEF HollowInv
  <2>3. \A q \in Products : HollowOf(q)' /\ (Hollow(q)' => Hollow(q))
    BY <1>1, <1>2, <2>1, <2>2 DEF HollowOf, Hollow, NoState
  <2> QED
    BY <1>1, <1>2, <1>3, <2>3, EnvironmentHollow
<1>5. CASE ReadBootstrap(p)
  <2>1. UNCHANGED <<auth, stream>> /\ \A q \in Products : seeds'[q] = seeds[q] \/ seeds'[q].log = log[q]
    BY <1>5, SeedIs DEF ReadBootstrap, TypeInv, ActorsInv
  <2>2. \A q \in Products : HollowOf(q)' /\ (Hollow(q)' => Hollow(q))
    BY <1>1, <1>2, <2>1 DEF HollowOf, Hollow
  <2> QED
    BY <1>1, <1>2, <1>3, <2>2, EnvironmentHollow
<1>6. ASSUME NEW k \in {"BID", "CLOSE"}, Mutate(p, k)
      PROVE  (\A q \in Products : HollowOf(q)') /\ \A w \in Workers : RebuildOf(w)'
  <2>1. auth[p].keys # "none" /\ auth'[p].keys = auth[p].keys /\ UNCHANGED seeds
    BY <1>6, MutateIs DEF Mutate, Writable
  <2>2. \A q \in Products \ {p} : auth'[q] = auth[q] /\ stream'[q] = stream[q]
    BY <1>6, MutateIs
  <2>3. \A q \in Products : HollowOf(q)' /\ (Hollow(q)' => Hollow(q))
    BY <1>1, <1>2, <2>1, <2>2 DEF HollowOf, Hollow
  <2> QED
    BY <1>1, <1>2, <1>3, <2>3, EnvironmentHollow
<1> QED
  BY <1>4, <1>5, <1>6

LEMMA ProjectHollow ==
  ASSUME TypeInv, FlowInv, DrainInv, \A p \in Products : HollowOf(p), \A w \in Workers : RebuildOf(w),
         NEW w \in Workers, NEW p \in Products, Project(w, p)
  PROVE  (\A q \in Products : HollowOf(q)') /\ \A v \in Workers : RebuildOf(v)'
<1>1. UNCHANGED <<auth, seeds, trial, fence, auctionFence, worker, rows>>
  BY DEF Project, history
<1>2. stream[p] # <<>> /\ \A q \in Products \ {p} : log'[q] = log[q] /\ stream'[q] = stream[q]
  BY Projects, ProjectIs
<1>3. log'[p] # <<>>
  BY Projects, Sequences, AppendIs
<1>4. \A q \in Products \ {p} : Guarded(q) => Guarded(q)'
  BY <1>1, <1>2, GuardStays
<1>5. \A v \in Workers : Drained(v) \subseteq Products \ {p}
  <2>1. \A v \in Workers : Drained(v) \subseteq Products
    BY ControlIs DEF Drained, Scope, Cycling
  <2> QED
    BY <1>2, <2>1 DEF DrainInv, DrainOf, Still
<1>6. HollowOf(p)' /\ ~Hollow(p)'
  BY <1>1, <1>2, <1>3 DEF HollowOf, Hollow
<1>7. \A q \in Products : HollowOf(q)' /\ (Hollow(q)' => Hollow(q))
  BY <1>1, <1>2, <1>4, <1>6, HollowStays
<1> QED
  BY <1>1, <1>4, <1>5, <1>7, EnvironmentHollow

LEMMA StructureHollow ==
  ASSUME TypeInv, \A p \in Products : HollowOf(p), \A w \in Workers : RebuildOf(w), NEW p \in Products, LoseStructure(p)
  PROVE  (\A q \in Products : HollowOf(q)') /\ \A w \in Workers : RebuildOf(w)'
<1>1. UNCHANGED <<log, stream, seeds, trial, fence, auctionFence, worker, rows>>
  BY DEF LoseStructure, environment, postgres
<1>2. \A q \in Products : Guarded(q) => Guarded(q)'
  BY <1>1, GuardStays
<1>3. \A w \in Workers : Drained(w) \subseteq Products
  BY ControlIs DEF Drained, Scope, Cycling
<1>4. \A q \in Products : auth'[q] = auth[q] \/ auth'[q].keys = "broken"
  <2>1. auth \in [Products -> RedisState]
    BY DEF TypeInv, RedisInv
  <2> QED
    BY <2>1 DEF LoseStructure, RedisState
<1>5. \A q \in Products : HollowOf(q)' /\ (Hollow(q)' => Hollow(q))
  BY <1>1, <1>2, <1>4 DEF HollowOf, Hollow
<1> QED
  BY <1>1, <1>2, <1>3, <1>5, EnvironmentHollow

\* What a step of a cycle leaves is enough: the other workers rest.
LEMMA CycleHollow ==
  ASSUME TypeInv, \A p \in Products : HollowOf(p), NEW w \in Workers, RebuildOf(w), DrainOf(w),
         Passing(w) \/ Delete(w) \/ Install(w) \/ \E p \in Products : ReadSeed(w, p)
  PROVE  RebuildOf(w)' /\ \A p \in Products : HollowOf(p)'
<1>1. CASE Delete(w) \/ Install(w) \/ \E p \in Products : ReadSeed(w, p)
  BY <1>1, DeleteRebuilds, InstallRebuilds, ReadSeedRebuilds
<1>2. CASE Unfence(w)
  BY <1>2, UnfenceHollow, Stopped, RestRebuilds
<1>3. CASE Passing(w) /\ ~Unfence(w)
  <2>1. UNCHANGED <<auth, stream, log, seeds, trial>>
    BY <1>3, PassingIs
  <2>2. UNCHANGED rows
    BY <1>3 DEF Passing, Observe, Inspect, Claim, Fence, Drain, Extend, List, Reconcile, Renew, WriteManifest, Ready,
       Error, Crash, GiveUp, Renewed, LeaseLost, postgres, environment
  <2>3. auctionFence \subseteq auctionFence' /\ (fence => fence')
    <3>1. CASE Fence(w)
      BY <3>1 DEF Fence
    <3>2. CASE ~Fence(w)
      <4>1. UNCHANGED <<fence, auctionFence>>
        BY <1>3, <3>2 DEF Passing, Observe, Inspect, Claim, Drain, Extend, List, Reconcile, Renew, WriteManifest, Ready,
           Error, Crash, redis
      <4> QED
        BY <4>1
    <3> QED
      BY <3>1, <3>2
  <2>4. \A p \in Products : HollowOf(p)'
    BY <2>1, <2>2, <2>3, HollowPasses
  <2>5. RebuildOf(w)'
    BY <1>3, EarlyRebuild, ListRebuilds, LateRebuild, RenewRebuilds, Stopped, RestRebuilds DEF Passing
  <2> QED
    BY <2>4, <2>5
<1> QED
  BY <1>1, <1>2, <1>3

LEMMA NextHollow ==
  ASSUME TypeInv, FlowInv, HollowInv, OthersRest, OthersRest', DrainInv, Alone, Unraced, NoLoss, [Next]_vars
  PROVE  HollowInv'
<1>1. (\A p \in Products : HollowOf(p)) /\ (\A w \in Workers : RebuildOf(w))
  BY DEF HollowInv
<1>2. ASSUME NEW w \in Workers, Passing(w) \/ Delete(w) \/ Install(w) \/ \E p \in Products : ReadSeed(w, p)
      PROVE  (\A q \in Products : HollowOf(q)') /\ \A v \in Workers : RebuildOf(v)'
  <2>1. RebuildOf(w)' /\ \A p \in Products : HollowOf(p)'
    BY <1>1, <1>2, CycleHollow DEF DrainInv
  <2>2. w \in trial.workers /\ trial' = trial
    BY <1>2, Runs, PassingIs DEF Passing, Cycle, Delete, Install, ReadSeed, history
  <2>3. ASSUME NEW v \in Workers, v # w
        PROVE  RebuildOf(v)'
    <3>1. worker'[v] = Resting
      BY <2>2, <2>3 DEF Alone, OthersRest
    <3> QED
      BY <3>1, RestRebuilds
  <2> QED
    BY <2>1, <2>3
<1>3. CASE UNCHANGED vars \/ Outside
  BY <1>1, <1>3, OutsideHollow DEF HollowInv
<1>4. ASSUME NEW p \in Products, ReadBootstrap(p) \/ Bootstrap(p) \/ \E k \in {"BID", "CLOSE"} : Mutate(p, k)
      PROVE  (\A q \in Products : HollowOf(q)') /\ \A v \in Workers : RebuildOf(v)'
  BY <1>1, <1>4, ApiHollow
<1>5. ASSUME NEW p \in Products, LoseStructure(p)
      PROVE  (\A q \in Products : HollowOf(q)') /\ \A v \in Workers : RebuildOf(v)'
  BY <1>1, <1>5, StructureHollow
<1>6. ASSUME NEW w \in Workers, NEW p \in Products, Project(w, p)
      PROVE  (\A q \in Products : HollowOf(q)') /\ \A v \in Workers : RebuildOf(v)'
  BY <1>1, <1>6, ProjectHollow
<1>7. ~LoseAll /\ \A p \in Products : ~LoseState(p)
  BY DEF NoLoss, LoseAll, LoseState, Fault
<1> QED
  BY <1>2, <1>3, <1>4, <1>5, <1>6, <1>7, NextIs DEF HollowInv

LEMMA TrialStays ==
  ASSUME TypeInv, [Next]_vars
  PROVE  trial' = trial
BY NextIs, OutsideIs, PassingIs DEF vars, history, LoseAll, Mutate, ReadBootstrap, Bootstrap, LoseState,
   LoseStructure, Delete, Install, ReadSeed, Project

LEMMA NextCovers ==
  ASSUME TypeInv, AloneInv, CoverInv, AloneInv', [Next]_vars
  PROVE  CoverInv'
<1>1. trial' = trial
  BY TrialStays
<1> SUFFICES ASSUME Alone, Unraced, "inflight" \notin trial.faults
             PROVE  FlowInv' /\ HollowInv'
  BY <1>1 DEF CoverInv, Alone, Unraced
<1>2. FlowInv /\ HollowInv /\ OthersRest /\ DrainInv /\ OthersRest'
  BY <1>1 DEF CoverInv, AloneInv, Alone, Unraced
<1>3. CASE NoLoss
  BY <1>2, <1>3, NextFlows, NextHollow
<1>4. CASE ~NoLoss
  BY <1>1, <1>2, <1>4, NextFlows DEF HollowInv, NoLoss
<1> QED
  BY <1>3, <1>4

LEMMA InitCovers ==
  ASSUME Init
  PROVE  CoverInv
<1>1. FlowInv
  <2>1. <<>> \o <<>> = <<>>
    BY ConcatEmptySeq
  <2>2. ASSUME NEW p \in Products
        PROVE  Follows(p)
    <3>1. auth[p].log = <<>> /\ log[p] = <<>> /\ stream[p] = <<>>
      BY DEF Init, NoState
    <3> QED
      BY <2>1, <3>1 DEF Follows
  <2> QED
    BY <2>2 DEF Init, FlowInv, Resting
<1>2. HollowInv
  BY DEF Init, HollowInv, HollowOf, Hollow, RebuildOf, Resting, Fencing, Rebuilding, NoState
<1> QED
  BY <1>1, <1>2 DEF CoverInv

LEMMA CoversSuffice ==
  ASSUME TypeInv, CoverInv
  PROVE  OpenAuthorityCovers
<1>1. ASSUME FlowInv, NEW p \in Products, auth[p].keys # "none"
      PROVE  IsPrefix(log[p], auth[p].log)
  <2>1. log[p] \in Seq(Event) /\ stream[p] \in Seq(Event) /\ auth[p].log = log[p] \o stream[p]
    BY <1>1, Sequences DEF FlowInv, Follows
  <2>2. IsPrefix(log[p], log[p] \o stream[p])
    BY <2>1, JoinPrefix
  <2> QED
    BY <2>1, <2>2
<1> QED
  BY <1>1, TypesSuffice DEF OpenAuthorityCovers, CoverInv, Writable

\* With one worker, an auction that accepts bids knows every event PostgreSQL has of
\* it: its log is the projected one followed by the stream, or its fence stops it
\* until it is rebuilt from the projected rows.
THEOREM OpenAuthoritiesCover == Spec => []OpenAuthorityCovers
<1>1. Init => AloneInv /\ CoverInv
  BY InitAlone, InitCovers
<1>2. TypeInv /\ AloneInv /\ CoverInv /\ [Next]_vars => (AloneInv /\ CoverInv)'
  BY NextAlone, NextCovers
<1>3. TypeInv /\ AloneInv /\ CoverInv => OpenAuthorityCovers
  BY CoversSuffice
<1> QED
  BY <1>1, <1>2, <1>3, TypesHold, PTL DEF Spec

-----------------------------------------------------------------------------
(* Nothing follows the event that ended an auction.                        *)

LEMMA OpenGrows ==
  ASSUME NEW l \in Seq(Event), NEW e \in Event, NEW n, Open(l, n)
  PROVE  Open(Append(l, e), n)
BY AppendIs DEF Open

\* A step that moves no event keeps it.
LEMMA EndStays ==
  ASSUME NEW p \in Products, EndOf(p), auth'[p] \in {auth[p], NoState}, stream'[p] \in {stream[p], <<>>},
         auth'[p] = auth[p] => stream'[p] = stream[p],
         log'[p] = log[p], seeds'[p] \in {seeds[p], NoState}
  PROVE  EndOf(p)'
<1>1. ~Trading(NoState) /\ DOMAIN <<>> = {}
  BY DEF Trading, NoState
<1> QED
  BY <1>1 DEF EndOf, Open, Coming, Trading

LEMMA HeldStays ==
  ASSUME NEW w \in Workers, NEW p \in Products, HeldOf(w, p), log'[p] = log[p],
         inflight'[w][p] \in {inflight[w][p], NoEvent},
         worker'[w] = worker[w] \/ worker'[w].step \notin {"delete", "install"}
  PROVE  HeldOf(w, p)'
BY DEF HeldOf, Open

LEMMA SeedOpens ==
  ASSUME TypeInv, NEW p \in Products
  PROVE  Trading(Seed(p)) => Open(log[p], Len(Seed(p).log))
<1>1. Trading(Seed(p)) => RowStatus(p) # "ENDED"
  BY SeedIs
<1>2. Seed(p).log = log[p] /\ log[p] \in Seq(Event)
  BY SeedIs, Sequences
<1>3. RowStatus(p) # "ENDED" => log[p] = <<>> \/ log[p][Len(log[p])].kind # "CLOSE"
  BY DEF RowStatus, Ended, Last
<1>4. log[p] # <<>> => Len(log[p]) \in DOMAIN log[p]
  BY <1>2, EmptySeq
<1> QED
  BY <1>1, <1>2, <1>3, <1>4 DEF Open

LEMMA MutateEnds ==
  ASSUME TypeInv, EndInv, NEW p \in Products, NEW k \in {"BID", "CLOSE"}, Mutate(p, k)
  PROVE  EndInv'
<1> DEFINE e == NewEvent(p, k)
           s == stream[p]
           l == auth[p].log
<1>0. UNCHANGED <<log, seeds, worker, inflight>> /\ Trading(auth[p])
  BY DEF Mutate, postgres, Trading
<1>1. /\ e \in Event /\ e.at = Len(l) + 1 /\ e.kind = k
      /\ auth'[p].log = Append(l, e) /\ stream'[p] = Append(s, e)
      /\ auth'[p].status = (IF k = "CLOSE" THEN "ENDED" ELSE "ACTIVE")
      /\ s \in Seq(Event) /\ l \in Seq(Event)
      /\ \A q \in Products \ {p} : auth'[q] = auth[q] /\ stream'[q] = stream[q]
  BY MutateIs
<1>2. /\ \A j \in DOMAIN s : Open(log[p], s[j].at - 1) \/ Coming(s, s[j].at - 1, j)
      /\ Open(log[p], Len(l)) \/ Coming(s, Len(l), Len(s) + 1)
      /\ Trading(seeds[p]) => Open(log[p], Len(seeds[p].log))
  BY <1>0 DEF EndInv, EndOf
<1> HIDE DEF e, s, l
<1>3. /\ Len(Append(s, e)) = Len(s) + 1 /\ DOMAIN Append(s, e) = 1..Len(s) + 1 /\ DOMAIN s = 1..Len(s)
      /\ Len(s) \in Nat /\ Len(l) \in Nat /\ Len(Append(l, e)) = Len(l) + 1
      /\ \A i \in DOMAIN s : Append(s, e)[i] = s[i]
      /\ Append(s, e)[Len(s) + 1] = e
  BY <1>1, AppendIs
<1> DEFINE t == Append(s, e)
<1> HIDE DEF t
<1>4. ASSUME NEW n, NEW j \in 1..Len(s) + 1, Coming(s, n, j)
      PROVE  Coming(t, n, j)
  BY <1>3, <1>4 DEF Coming, t
<1>5. ASSUME NEW j \in DOMAIN t
      PROVE  Open(log[p], t[j].at - 1) \/ Coming(t, t[j].at - 1, j)
  <2>1. CASE j \in DOMAIN s
    BY <1>2, <1>3, <1>4, <2>1 DEF t
  <2>2. CASE j = Len(s) + 1
    <3>1. t[j].at - 1 = Len(l)
      BY <1>1, <1>3, <2>2 DEF t
    <3> QED
      BY <1>2, <1>3, <1>4, <2>2, <3>1
  <2> QED
    BY <1>3, <2>1, <2>2 DEF t
<1>6. k # "CLOSE" => Coming(t, Len(l) + 1, Len(s) + 1 + 1)
  BY <1>1, <1>3 DEF Coming, t
<1>7. Trading(auth'[p]) => k # "CLOSE"
  BY <1>1 DEF Trading
<1>8. EndOf(p)'
  <2>1. stream'[p] = t /\ log'[p] = log[p] /\ seeds'[p] = seeds[p] /\ Len(auth'[p].log) = Len(l) + 1
        /\ Len(t) = Len(s) + 1
    BY <1>0, <1>1, <1>3 DEF t
  <2> QED
    BY <1>2, <1>5, <1>6, <1>7, <2>1 DEF EndOf, Trading, Open, Coming
<1>9. \A q \in Products : EndOf(q)'
  BY <1>0, <1>1, <1>8, EndStays DEF EndInv
<1>10. \A q \in Products, w \in Workers : HeldOf(w, q)'
  BY <1>0, HeldStays DEF EndInv
<1> QED
  BY <1>9, <1>10 DEF EndInv

LEMMA FetchEnds ==
  ASSUME TypeInv, EndInv, NEW w \in Workers, NEW p \in Products, Fetch(w, p)
  PROVE  EndInv'
<1>1. UNCHANGED <<auth, stream, log, seeds, worker>>
  BY DEF Fetch, redis, postgres
<1>2. /\ stream[p] # <<>> /\ stream[p] \in Seq(Event)
      /\ \A v \in Workers, q \in Products :
           inflight'[v][q] = IF v = w /\ q = p THEN Head(stream[p]) ELSE inflight[v][q]
  BY Sequences DEF Fetch, TypeInv, ActorsInv
<1>3. Open(log[p], Head(stream[p]).at - 1)
  <2>1. 1 \in DOMAIN stream[p] /\ Head(stream[p]) = stream[p][1]
    BY <1>2, EmptySeq
  <2>2. ~Coming(stream[p], stream[p][1].at - 1, 1)
    BY DEF Coming
  <2> QED
    BY <2>1, <2>2 DEF EndInv, EndOf
<1>4. \A q \in Products : EndOf(q)'
  BY <1>1, EndStays DEF EndInv
<1>5. ASSUME NEW v \in Workers, NEW q \in Products
      PROVE  HeldOf(v, q)'
  BY <1>1, <1>2, <1>3 DEF EndInv, HeldOf
<1> QED
  BY <1>4, <1>5 DEF EndInv

\* What a projection makes of a log and of the entries before a position.
LEMMA ProjectOpens ==
  ASSUME TypeInv, NEW w \in Workers, NEW p \in Products, Project(w, p)
  PROVE  /\ \A n : Open(log[p], n) => Open(log'[p], n)
         /\ stream' # stream => \A n, j : Coming(stream[p], n, j) => Open(log'[p], n) \/
              \E h \in 1..j - 1 : stream[p][h].at = n /\ stream[p][h].kind # "CLOSE" /\ stream[p][h] # inflight[w][p]
<1> DEFINE e == inflight[w][p]
           l == log[p]
           s == stream[p]
<1>1. /\ e \in Event /\ l \in Seq(Event) /\ Sound(l, events)
      /\ \/ e.at = Len(l) + 1 /\ log'[p] = Append(l, e)
         \/ e \in Range(l) /\ log' = log
         \/ log' = log /\ stream' = stream
  BY ProjectIs DEF TypeInv, RowsInv
<1> HIDE DEF e, l, s
<1>2. \A n : Open(l, n) => Open(log'[p], n)
  <2>1. CASE log'[p] = Append(l, e)
    BY <1>1, <2>1, OpenGrows
  <2>2. CASE log' = log
    BY <2>2 DEF l
  <2> QED
    BY <1>1, <2>1, <2>2
<1>3. ASSUME stream' # stream, e.kind # "CLOSE"
      PROVE  Open(log'[p], e.at)
  <2>1. CASE e.at = Len(l) + 1 /\ log'[p] = Append(l, e)
    BY <1>1, <1>3, <2>1, AppendIs DEF Open
  <2>2. CASE e \in Range(l) /\ log' = log
    <3>1. PICK i \in DOMAIN l : l[i] = e
      BY <2>2 DEF Range
    <3>2. i = e.at
      BY <1>1, <3>1 DEF Sound
    <3> QED
      BY <1>3, <2>2, <3>1, <3>2 DEF Open, l
  <2> QED
    BY <1>1, <1>3, <2>1, <2>2
<1>4. ASSUME stream' # stream, NEW n, NEW j, Coming(s, n, j), ~Open(log'[p], n)
      PROVE  \E h \in 1..j - 1 : s[h].at = n /\ s[h].kind # "CLOSE" /\ s[h] # e
  BY <1>3, <1>4 DEF Coming
<1> QED
  BY <1>2, <1>4 DEF l, s, e

LEMMA ProjectEnds ==
  ASSUME TypeInv, EndInv, NEW w \in Workers, NEW p \in Products, Project(w, p)
  PROVE  EndInv'
<1> DEFINE e == inflight[w][p]
           s == stream[p]
           t == stream'[p]
           m == log'[p]
<1>0. UNCHANGED <<auth, seeds, worker>>
  BY DEF Project
<1>1. /\ s \in Seq(Event) /\ (stream' = stream \/ t = Without(s, e))
      /\ \A q \in Products \ {p} : log'[q] = log[q] /\ stream'[q] = stream[q]
      /\ \A v \in Workers, q \in Products : inflight'[v][q] \in {inflight[v][q], NoEvent}
  BY ProjectIs
<1>2. \A n : Open(log[p], n) => Open(m, n)
  BY ProjectOpens
<1>3. \A j \in DOMAIN s : Open(log[p], s[j].at - 1) \/ Coming(s, s[j].at - 1, j)
  BY DEF EndInv, EndOf
<1>4. Trading(auth[p]) => Open(log[p], Len(auth[p].log)) \/ Coming(s, Len(auth[p].log), Len(s) + 1)
  BY DEF EndInv, EndOf
<1>5. stream' # stream => \A n, j : Coming(s, n, j) => Open(m, n) \/
        \E h \in 1..j - 1 : s[h].at = n /\ s[h].kind # "CLOSE" /\ s[h] # e
  BY ProjectOpens
<1> HIDE DEF e, m
<1>6. /\ \A j \in DOMAIN t : Open(m, t[j].at - 1) \/ Coming(t, t[j].at - 1, j)
      /\ Trading(auth[p]) => Open(m, Len(auth[p].log)) \/ Coming(t, Len(auth[p].log), Len(t) + 1)
  <2>1. CASE stream' = stream
    BY <1>2, <1>3, <1>4, <2>1 DEF s, t
  <2>2. CASE stream' # stream
    <3>0. t = Without(s, e)
      BY <1>1, <2>2
    <3> HIDE DEF s, t
    <3>1. ASSUME NEW j \in DOMAIN t
          PROVE  Open(m, t[j].at - 1) \/ Coming(t, t[j].at - 1, j)
      <4>1. PICK i \in DOMAIN s : /\ t[j] = s[i]
                                  /\ \A h \in 1..i - 1 : s[h] # e => \E g \in 1..j - 1 : t[g] = s[h]
        BY <1>1, <3>0, WithoutIs
      <4>2. Open(m, s[i].at - 1) \/ \E h \in 1..i - 1 : s[h].at = s[i].at - 1 /\ s[h].kind # "CLOSE" /\ s[h] # e
        BY <1>2, <1>3, <1>5, <2>2
      <4> QED
        BY <4>1, <4>2 DEF Coming
    <3>2. ASSUME NEW n, Coming(s, n, Len(s) + 1), ~Open(m, n)
          PROVE  Coming(t, n, Len(t) + 1)
      <4>1. PICK h \in 1..Len(s) + 1 - 1 : s[h].at = n /\ s[h].kind # "CLOSE" /\ s[h] # e
        BY <1>5, <2>2, <3>2
      <4>2. h \in DOMAIN s
        BY <1>1, <4>1
      <4>3. t \in Seq(Event) /\ s[h] \in Range(t)
        BY <1>1, <3>0, <4>1, <4>2, WithoutIs
      <4>4. PICK g \in DOMAIN t : t[g] = s[h]
        BY <4>3 DEF Range
      <4>5. g \in 1..Len(t) + 1 - 1
        BY <4>3, <4>4
      <4> QED
        BY <4>1, <4>4, <4>5 DEF Coming
    <3> QED
      BY <1>2, <1>4, <3>1, <3>2
  <2> QED
    BY <2>1, <2>2
<1>7. EndOf(p)'
  BY <1>0, <1>2, <1>6 DEF EndInv, EndOf, Trading, m, t
<1>8. ASSUME NEW q \in Products
      PROVE  EndOf(q)'
  BY <1>0, <1>1, <1>7, EndStays DEF EndInv
<1>9. ASSUME NEW v \in Workers, NEW q \in Products
      PROVE  HeldOf(v, q)'
  <2>1. CASE q # p
    BY <1>0, <1>1, <2>1, HeldStays DEF EndInv
  <2>2. CASE q = p
    <3>1. HeldOf(v, p) /\ \A n : Open(log[p], n) => Open(log'[p], n)
      BY <1>2 DEF EndInv, m
    <3>2. inflight'[v][p] \in {inflight[v][p], NoEvent} /\ worker' = worker
      BY <1>0, <1>1
    <3> QED
      BY <2>2, <3>1, <3>2 DEF HeldOf
  <2> QED
    BY <2>1, <2>2
<1> QED
  BY <1>8, <1>9 DEF EndInv

LEMMA ReadBootstrapEnds ==
  ASSUME TypeInv, EndInv, NEW p \in Products, ReadBootstrap(p)
  PROVE  EndInv'
<1>1. UNCHANGED <<auth, stream, log, worker, inflight>>
  BY DEF ReadBootstrap, postgres
<1>2. \A q \in Products : seeds'[q] = seeds[q] \/ (q = p /\ seeds'[q] = Seed(p))
  BY DEF ReadBootstrap, TypeInv, ActorsInv
<1>3. ASSUME NEW q \in Products
      PROVE  EndOf(q)'
  <2>1. Trading(seeds'[q]) => Open(log[q], Len(seeds'[q].log))
    BY <1>2, SeedOpens DEF EndInv, EndOf
  <2> QED
    BY <1>1, <2>1 DEF EndInv, EndOf
<1>4. \A q \in Products, v \in Workers : HeldOf(v, q)'
  BY <1>1, HeldStays DEF EndInv
<1> QED
  BY <1>3, <1>4 DEF EndInv

LEMMA BootstrapEnds ==
  ASSUME TypeInv, EndInv, NEW p \in Products, Bootstrap(p)
  PROVE  EndInv'
<1>1. UNCHANGED <<stream, log, worker, inflight>>
  BY DEF Bootstrap, postgres
<1>2. /\ \A q \in Products : auth'[q] = auth[q] \/ auth'[q] = seeds[q]
      /\ \A q \in Products : seeds'[q] \in {seeds[q], NoState}
  BY DEF Bootstrap, TypeInv, RedisInv, ActorsInv
<1>3. ASSUME NEW q \in Products
      PROVE  EndOf(q)'
  <2>1. ~Trading(NoState)
    BY DEF Trading, NoState
  <2>2. Trading(seeds'[q]) => Open(log[q], Len(seeds'[q].log))
    BY <1>2, <2>1 DEF EndInv, EndOf
  <2>3. Trading(auth'[q]) => Open(log[q], Len(auth'[q].log)) \/ Coming(stream[q], Len(auth'[q].log), Len(stream[q]) + 1)
    BY <1>2 DEF EndInv, EndOf
  <2> QED
    BY <1>1, <2>2, <2>3 DEF EndInv, EndOf
<1>4. \A q \in Products, v \in Workers : HeldOf(v, q)'
  BY <1>1, HeldStays DEF EndInv
<1> QED
  BY <1>3, <1>4 DEF EndInv

LEMMA ReadSeedEnds ==
  ASSUME TypeInv, EndInv, NEW w \in Workers, NEW p \in Products, ReadSeed(w, p)
  PROVE  EndInv'
<1>1. UNCHANGED <<auth, stream, log, seeds, inflight>>
  BY DEF ReadSeed, postgres, environment
<1>2. OthersStay(w) /\ worker'[w].product = {p} /\ (worker'[w].seed = Seed(p) \/ worker'[w].seed = NoState)
  BY SeedRead
<1>3. \A q \in Products : EndOf(q)'
  BY <1>1, EndStays DEF EndInv
<1>4. ASSUME NEW v \in Workers, NEW q \in Products
      PROVE  HeldOf(v, q)'
  <2>1. CASE v # w
    BY <1>1, <1>2, <2>1, HeldStays DEF EndInv, OthersStay
  <2>2. CASE v = w
    <3>1. ~Trading(NoState)
      BY DEF Trading, NoState
    <3> QED
      BY <1>1, <1>2, <2>2, <3>1, SeedOpens DEF EndInv, HeldOf
  <2> QED
    BY <2>1, <2>2
<1> QED
  BY <1>3, <1>4 DEF EndInv

LEMMA DeleteEnds ==
  ASSUME TypeInv, EndInv, NEW w \in Workers, Delete(w)
  PROVE  EndInv'
<1>1. UNCHANGED <<stream, log, seeds, inflight>> /\ \A p \in Products : auth'[p] \in {auth[p], NoState}
  BY DEF Delete, postgres, environment
<1>2. /\ OthersStay(w) /\ worker'[w].product = worker[w].product /\ worker'[w].seed = worker[w].seed
      /\ worker[w].step = "delete"
  BY Went DEF Delete, Phases, At
<1>3. ~Trading(NoState)
  BY DEF Trading, NoState
<1>4. \A q \in Products : EndOf(q)'
  BY <1>1, <1>3 DEF EndInv, EndOf
<1>5. \A q \in Products, v \in Workers : HeldOf(v, q)'
  BY <1>1, <1>2 DEF EndInv, HeldOf, OthersStay
<1> QED
  BY <1>4, <1>5 DEF EndInv

LEMMA InstallEnds ==
  ASSUME TypeInv, EndInv, NEW w \in Workers, Install(w)
  PROVE  EndInv'
<1>1. /\ UNCHANGED <<stream, log, seeds, inflight>> /\ worker[w].step = "install"
      /\ \A p \in Products : auth'[p] = auth[p] \/ (p \in worker[w].product /\ auth'[p] = worker[w].seed)
  BY DEF Install, postgres, environment, At
<1>2. OthersStay(w) /\ worker'[w].step \notin {"delete", "install"}
  BY Passes
<1>3. \A q \in Products : EndOf(q)'
  BY <1>1 DEF EndInv, EndOf, HeldOf
<1>4. \A q \in Products, v \in Workers : HeldOf(v, q)'
  BY <1>1, <1>2, HeldStays DEF EndInv, OthersStay
<1> QED
  BY <1>3, <1>4 DEF EndInv

LEMMA LossEnds ==
  ASSUME TypeInv, EndInv, LoseAll \/ \E p \in Products : LoseState(p) \/ LoseStructure(p)
  PROVE  EndInv'
<1>0. UNCHANGED <<log, seeds, worker>> /\ auth \in [Products -> RedisState] /\ ~Trading(NoState)
  BY DEF LoseAll, LoseState, LoseStructure, postgres, environment, TypeInv, RedisInv, Trading, NoState
<1>1. CASE LoseAll
  <2>1. \A q \in Products : auth'[q] = NoState /\ stream'[q] = <<>> /\ DOMAIN <<>> = {}
    BY <1>1 DEF LoseAll
  <2>2. \A q \in Products : EndOf(q)'
    BY <1>0, <2>1 DEF EndInv, EndOf
  <2>3. \A v \in Workers, q \in Products : inflight'[v][q] \in {inflight[v][q], NoEvent}
    BY <1>1 DEF LoseAll
  <2> QED
    BY <1>0, <2>2, <2>3, HeldStays DEF EndInv
<1>2. CASE \E p \in Products : LoseState(p) \/ LoseStructure(p)
  <2>1. UNCHANGED <<stream, inflight>>
    BY <1>2 DEF LoseState, LoseStructure, environment
  <2>2. \A q \in Products : auth'[q] = NoState \/ (auth'[q].log = auth[q].log /\ auth'[q].status = auth[q].status)
    <3>1. ASSUME NEW p \in Products, LoseState(p), NEW q \in Products
          PROVE  auth'[q] = auth[q] \/ auth'[q] = NoState
      BY <1>0, <3>1 DEF LoseState
    <3>2. ASSUME NEW p \in Products, LoseStructure(p), NEW q \in Products
          PROVE  auth'[q].log = auth[q].log /\ auth'[q].status = auth[q].status
      BY <1>0, <3>2 DEF LoseStructure, RedisState
    <3> QED
      BY <1>2, <3>1, <3>2
  <2>3. \A q \in Products : EndOf(q)'
    BY <1>0, <2>1, <2>2 DEF EndInv, EndOf, Trading
  <2> QED
    BY <1>0, <2>1, <2>3, HeldStays DEF EndInv
<1> QED
  BY <1>1, <1>2

LEMMA OthersEnd ==
  ASSUME TypeInv, EndInv, UNCHANGED vars \/ Outside \/ (\E w \in Workers : Passing(w))
  PROVE  EndInv'
<1>1. ASSUME NEW w \in Workers, NEW p \in Products, Fetch(w, p)
      PROVE  EndInv'
  BY <1>1, FetchEnds
<1>2. CASE UNCHANGED vars \/ LeaseEnds \/ Stall \/ \E p \in Products : Begin(p) \/ CreateRow(p) \/ LockEnds(p)
  <2>1. UNCHANGED <<auth, stream, log, seeds, inflight, worker>>
    BY <1>2 DEF vars, LeaseEnds, Stall, Begin, CreateRow, LockEnds, redis, postgres, environment
  <2> QED
    BY <2>1, EndStays, HeldStays DEF EndInv
<1>3. ASSUME NEW w \in Workers, Passing(w)
      PROVE  EndInv'
  <2>1. /\ UNCHANGED <<auth, stream, log, seeds>>
        /\ \A v \in Workers : worker'[v] = worker[v] \/ worker'[v].step \notin {"delete", "install"}
    BY <1>3, PassingIs DEF OthersStay
  <2>2. \A v \in Workers, p \in Products : inflight'[v][p] \in {inflight[v][p], NoEvent}
    <3>1. CASE Crash(w)
      BY <3>1 DEF Crash, TypeInv, ActorsInv
    <3>2. CASE ~Crash(w)
      <4>1. inflight' = inflight
        BY <1>3, <3>2 DEF Passing, Observe, Inspect, Claim, Fence, Drain, Extend, List, Reconcile, Renew,
           WriteManifest, Ready, Unfence, Error, environment
      <4> QED
        BY <4>1
    <3> QED
      BY <3>1, <3>2
  <2> QED
    BY <2>1, <2>2, EndStays, HeldStays DEF EndInv
<1> QED
  BY <1>1, <1>2, <1>3 DEF Outside

LEMMA InitEnds ==
  ASSUME Init
  PROVE  EndInv
<1>1. ASSUME NEW p \in Products
      PROVE  EndOf(p)
  <2>1. /\ DOMAIN stream[p] = {} /\ Len(auth[p].log) = 0 /\ seeds[p] = NoState /\ ~Trading(NoState)
    BY DEF Init, NoState, Trading
  <2> QED
    BY <2>1 DEF EndOf, Open
<1> QED
  BY <1>1 DEF Init, EndInv, HeldOf, Resting

LEMMA NextEnds ==
  ASSUME TypeInv, EndInv, [Next]_vars
  PROVE  EndInv'
BY NextIs, OthersEnd, MutateEnds, ReadBootstrapEnds, BootstrapEnds, LossEnds, ReadSeedEnds, ProjectEnds,
   DeleteEnds, InstallEnds

\* An auction that is over stays over: no event is projected after the last.
LEMMA OverStays ==
  ASSUME TypeInv, EndInv, [Next]_vars, NEW p \in Products, Ended(log[p])
  PROVE  log'[p] = log[p]
<1>1. ASSUME NEW w \in Workers, NEW q \in Products, Project(w, q), log'[p] # log[p]
      PROVE  FALSE
  <2> DEFINE e == inflight[w][p]
             l == log[p]
  <2>1. q = p /\ e.at = Len(l) + 1 /\ e # NoEvent /\ l \in Seq(Event)
    BY <1>1, ProjectIs DEF Project
  <2>2. Open(l, e.at - 1)
    BY <2>1 DEF EndInv, HeldOf
  <2> HIDE DEF e, l
  <2>3. e.at - 1 = Len(l) /\ Len(l) \in Nat
    BY <2>1
  <2>4. l # <<>> /\ l[Len(l)].kind = "CLOSE"
    BY DEF Ended, Last, l
  <2> QED
    BY <2>1, <2>2, <2>3, <2>4, EmptySeq DEF Open
<1>2. CASE ~\E w \in Workers, q \in Products : Project(w, q)
  <2>1. log' = log
    BY <1>2, NextIs, OutsideIs, PassingIs DEF vars, postgres, Mutate, ReadBootstrap, Bootstrap, LoseAll, LoseState,
       LoseStructure, Delete, Install, ReadSeed
  <2> QED
    BY <2>1
<1> QED
  BY <1>1, <1>2

LEMMA ActiveShrinks ==
  ASSUME TypeInv, EndInv, [Next]_vars, trial.created = {}
  PROVE  activeProductIds' \subseteq activeProductIds
<1>1. rows' = rows /\ UNCHANGED trial
  <2>1. TypeInv' /\ UNCHANGED trial
    BY NextTypes, StayTypes, TrialStays
  <2> QED
    BY <2>1 DEF TypeInv, CountsInv
<1>2. ASSUME NEW p \in Products, Ended(log[p])
      PROVE  Ended(log'[p])
  BY <1>2, OverStays
<1>3. ASSUME NEW p \in rows, p \notin activeProductIds
      PROVE  p \notin activeProductIds'
  <2>1. log[p] # <<>> /\ Ended(log[p])
    BY <1>3, StatusIs DEF activeProductIds, RowStatus
  <2>2. log'[p] # <<>> /\ Ended(log'[p])
    BY <1>2, <2>1 DEF Ended, TypeInv, RowsInv
  <2> QED
    BY <2>2 DEF activeProductIds, RowStatus
<1> QED
  BY <1>1, <1>3 DEF activeProductIds

-----------------------------------------------------------------------------
(* What a total loss interrupted is extended before all is healthy again.  *)

LEMMA WatchedStays ==
  ASSUME TypeInv, EndInv, Watched, [Next]_vars
  PROVE  Watched'
<1> SUFFICES ASSUME trial.created = {}, NEW v \in Workers, worker'[v].step = "inspect"
             PROVE  activeProductIds' \subseteq worker'[v].todo
  BY TrialStays DEF Watched, At
<1>1. activeProductIds' \subseteq activeProductIds
  BY ActiveShrinks
<1>2. CASE worker'[v] = worker[v]
  BY <1>1, <1>2 DEF Watched, At
<1>3. ASSUME NEW w \in Workers, Observe(w), worker'[v] # worker[v]
      PROVE  worker'[v].todo = activeProductIds
  BY <1>3, Observed DEF OthersStay
<1>4. ASSUME NEW w \in Workers, Passing(w), ~Observe(w), worker'[v] # worker[v]
      PROVE  FALSE
  <2>1. OthersStay(w) /\ v = w
    BY <1>4, PassingIs DEF OthersStay
  <2>0. Resting.step = "idle"
    BY DEF Resting
  <2>2. CASE Inspect(w) \/ Claim(w)
    <3>1. CASE Inspect(w)
      BY <2>0, <2>1, <3>1, Inspected
    <3>2. CASE Claim(w)
      BY <2>0, <2>1, <3>2, Claimed
    <3> QED
      BY <2>2, <3>1, <3>2
  <2>3. CASE Fence(w) \/ Extend(w) \/ WriteManifest(w) \/ Ready(w)
    BY <2>1, <2>3, Went DEF Fence, Extend, WriteManifest, Ready, Phases
  <2>4. CASE Drain(w)
    BY <1>4, <2>1, <2>4, Went, Stopped DEF Drain, Phases, Resting
  <2>5. CASE List(w) \/ Renew(w)
    BY <2>1, <2>5, Listed, WentOn, Stopped DEF Resting
  <2>6. CASE Reconcile(w)
    <3>1. CASE Goto(w, "renew")
      BY <2>1, <3>1, Went DEF Phases
    <3>2. CASE GiveUp(w, TRUE)
      BY <2>0, <2>1, <3>2, GaveUp DEF Becomes
    <3> QED
      BY <2>6, <3>1, <3>2 DEF Reconcile
  <2>7. CASE Unfence(w) \/ Error(w) \/ Crash(w)
    BY <2>1, <2>7, Stopped DEF Resting
  <2> QED
    BY <1>4, <2>2, <2>3, <2>4, <2>5, <2>6, <2>7 DEF Passing
<1>5. ASSUME NEW w \in Workers, Delete(w) \/ Install(w) \/ (\E p \in Products : ReadSeed(w, p)), worker'[v] # worker[v]
      PROVE  FALSE
  BY <1>5, Went, SeedRead DEF Delete, Install, Phases, OthersStay
<1>6. CASE ~\E w \in Workers : \/ Passing(w) \/ Delete(w) \/ Install(w)
                               \/ \E p \in Products : ReadSeed(w, p)
  <2>1. worker' = worker
    BY <1>6, NextIs, OutsideIs DEF vars, Mutate, ReadBootstrap, Bootstrap, LoseAll, LoseState, LoseStructure, Project
  <2> QED
    BY <1>2, <2>1
<1> QED
  BY <1>1, <1>2, <1>3, <1>4, <1>5, <1>6

\* A step after which nothing more is owed, and no worker does what it may not.
LEMMA OwedStays ==
  ASSUME OwedInv, UNCHANGED trial, owed' \subseteq owed, Due' \subseteq Due,
         Due' # {} => /\ \A p \in Products : auth'[p].keys = "none"
                      /\ \A w \in Workers : \/ worker'[w] = worker[w]
                                            \/ worker'[w].step \in {"idle", "inspect"}
                                            \/ OwedOf(w)'
                      /\ lastEpoch' = lastEpoch /\ OwedRow'
  PROVE  OwedInv'
<1>1. "all" \notin trial'.faults => owed' = {}
  BY DEF OwedInv
<1>2. ASSUME Due' # {}, NEW w \in Workers
      PROVE  OwedOf(w)'
  BY <1>2 DEF OwedInv, OwedOf
<1> QED
  BY <1>1, <1>2 DEF OwedInv

LEMMA DueShrinks ==
  ASSUME TypeInv, EndInv, Unraced, OwedInv, [Next]_vars, ~LoseAll
  PROVE  /\ owed' \subseteq owed /\ Due' \subseteq Due /\ UNCHANGED trial
         /\ Due' # {} => trial.created = {} /\ Due # {}
<1>1. owed' \subseteq owed
  <2>1. CASE \E w \in Workers : Passing(w)
    BY <2>1 DEF history, Passing, Observe, Inspect, Claim, Fence, Drain, Extend, List, Reconcile, Renew, WriteManifest,
       Ready, Unfence, Error, Crash
  <2>2. CASE Outside
    BY <2>2 DEF history, Outside, Begin, CreateRow, LockEnds, Fetch, LeaseEnds, Stall
  <2>3. CASE \E p \in Products : \/ \E k \in {"BID", "CLOSE"} : Mutate(p, k)
                                \/ ReadBootstrap(p) \/ Bootstrap(p) \/ LoseState(p) \/ LoseStructure(p)
    BY <2>3 DEF history, Mutate, ReadBootstrap, Bootstrap, LoseState, LoseStructure
  <2>4. CASE \E w \in Workers : Delete(w) \/ Install(w) \/ \E p \in Products : ReadSeed(w, p) \/ Project(w, p)
    BY <2>4 DEF history, Delete, Install, ReadSeed, Project
  <2>5. CASE UNCHANGED vars
    BY <2>5 DEF vars, history
  <2> QED
    BY <2>1, <2>2, <2>3, <2>4, <2>5, NextIs
<1>2. owed # {} => trial.created = {}
  BY DEF OwedInv, Unraced
<1>3. Due' \subseteq Due
  BY <1>1, <1>2, ActiveShrinks DEF Due
<1> QED
  BY <1>1, <1>2, <1>3, TrialStays DEF Due

\* The steps of a worker towards the extension.
LEMMA EarlyOwes ==
  ASSUME TypeInv, EndInv, Unraced, Watched, OwedInv, [Next]_vars, ~LoseAll, NEW w \in Workers,
         Observe(w) \/ Inspect(w) \/ Claim(w) \/ Fence(w) \/ Drain(w) \/ Extend(w)
  PROVE  OwedInv'
<1>0. /\ owed' \subseteq owed /\ Due' \subseteq Due /\ UNCHANGED trial
      /\ Due' # {} => trial.created = {} /\ Due # {}
  BY DueShrinks
<1> SUFFICES ASSUME Due' # {}
             PROVE  /\ \A p \in Products : auth'[p].keys = "none"
                    /\ \A v \in Workers : \/ worker'[v] = worker[v]
                                          \/ worker'[v].step \in {"idle", "inspect"}
                                          \/ OwedOf(v)'
                    /\ lastEpoch' = lastEpoch /\ OwedRow'
  BY <1>0, OwedStays
<1>1. /\ trial.created = {} /\ Due # {} /\ \A p \in Products : auth[p].keys = "none"
      /\ OwedOf(w) /\ OwedRow
  BY <1>0 DEF OwedInv
<1>2. auth' = auth
  BY DEF Observe, Inspect, Claim, Fence, Drain, Extend, redis
<1>3. ~Extend(w)
  <2>1. ASSUME Extend(w)
        PROVE  FALSE
    <3>1. worker[w].trigger = "FULL_DATA_LOSS" /\ \A p \in Due : lastEpoch[p] < worker[w].epoch
      BY <1>1, <2>1 DEF OwedOf, Extend, At
    <3>2. Due \subseteq Interrupted(w)
      BY <3>1 DEF Due, Interrupted
    <3>3. owed' = owed \ Interrupted(w)
      BY <2>1 DEF Extend
    <3>4. Due' \subseteq owed'
      BY DEF Due
    <3> QED
      BY <1>0, <3>2, <3>3, <3>4
  <2> QED
    BY <2>1
<1>4. lastEpoch' = lastEpoch
  BY <1>3 DEF Observe, Inspect, Claim, Fence, Drain, postgres, Renewed, LeaseLost, GiveUp
<1>5. /\ control.epoch \in Nat /\ \A p \in Products : lastEpoch[p] \in Nat /\ lastEpoch[p] <= control.epoch
      /\ Due \subseteq Products
  BY ActiveIs DEF TypeInv, RowsInv, CountsInv, Due
<1>6. CASE Observe(w)
  <2>1. OthersStay(w) /\ worker'[w].step = "inspect" /\ control' = control
    BY <1>6, Observed DEF Observe, postgres
  <2> QED
    BY <1>0, <1>1, <1>2, <1>4, <2>1 DEF OwedRow, OthersStay
<1>7. CASE Inspect(w)
  <2>1. Due \subseteq worker[w].todo /\ worker[w].todo \subseteq Products
    BY <1>1, <1>7, ControlIs DEF Watched, Inspect, Due, Cycling, At
  <2>2. Trigger(worker[w].todo) = "FULL_DATA_LOSS"
    BY <1>1, <2>1 DEF Trigger, Missing
  <2>3. OthersStay(w) /\ (worker'[w] = Resting \/ (worker'[w].step = "claim" /\ worker'[w].trigger = "FULL_DATA_LOSS"))
    BY <1>7, <2>2, Inspected
  <2>4. worker'[w].step = "idle" \/ OwedOf(w)'
    BY <2>3 DEF OwedOf, Resting
  <2>5. control' = control
    BY <1>7 DEF Inspect, postgres
  <2> QED
    BY <1>0, <1>1, <1>2, <1>4, <2>3, <2>4, <2>5 DEF OwedRow, OthersStay
<1>8. CASE Claim(w)
  <2>1. \A p \in Due : lastEpoch[p] < ClaimedEpoch
    BY <1>1, <1>5 DEF ClaimedEpoch, OwedRow
  <2>2. worker[w].trigger = "FULL_DATA_LOSS"
    BY <1>1, <1>8 DEF OwedOf, Claim, At
  <2>3. /\ OthersStay(w)
        /\ \/ worker'[w] = Resting /\ control' = control
           \/ /\ control'.state = "RECOVERING" /\ control'.epoch = ClaimedEpoch
              /\ worker'[w].step = "fence" /\ worker'[w].epoch = ClaimedEpoch /\ worker'[w].trigger = "FULL_DATA_LOSS"
    BY <1>8, <2>2, Claimed DEF SameRecovery
  <2>4. worker'[w].step = "idle" \/ OwedOf(w)'
    BY <1>0, <1>4, <2>1, <2>3 DEF OwedOf, Resting
  <2>5. OwedRow'
    BY <1>0, <1>1, <1>4, <2>1, <2>3 DEF OwedRow
  <2> QED
    BY <1>1, <1>2, <1>4, <2>3, <2>4, <2>5 DEF OthersStay
<1>9. CASE Fence(w) \/ (Drain(w) /\ ~LeaseLost(w))
  <2>1. /\ OthersStay(w) /\ (worker'[w] = worker[w] \/
             (SameRecovery(w) /\ worker'[w].step \in {"drain", "extend"} /\ worker'[w].epoch = worker[w].epoch))
        /\ worker[w].step \in {"fence", "drain"}
    BY <1>9, Went DEF Fence, Drain, At, Phases, OthersStay
  <2>2. worker'[w] = worker[w] \/ OwedOf(w)'
    BY <1>0, <1>1, <1>4, <2>1 DEF OwedOf, SameRecovery
  <2>3. control'.state = control.state /\ control'.epoch = control.epoch
    BY <1>9, ControlIs DEF Fence, Drain, postgres, Renewed, ControlRow
  <2> QED
    BY <1>0, <1>1, <1>2, <1>4, <2>1, <2>2, <2>3 DEF OwedRow, OthersStay
<1>10. CASE Drain(w) /\ LeaseLost(w)
  <2>1. OthersStay(w) /\ worker'[w] = Resting
    BY <1>10, Stopped
  <2>2. control' = control \/ (control.epoch = worker[w].epoch /\ control'.epoch = control.epoch)
    BY <1>10, ReleasedIs DEF LeaseLost, GiveUp
  <2>3. \A p \in Due : lastEpoch[p] < worker[w].epoch
    BY <1>1, <1>10 DEF OwedOf, Drain, At
  <2>4. OwedRow'
    BY <1>0, <1>1, <1>4, <2>2, <2>3 DEF OwedRow
  <2> QED
    BY <1>1, <1>2, <1>4, <2>1, <2>4 DEF OthersStay, Resting
<1> QED
  BY <1>3, <1>6, <1>7, <1>8, <1>9, <1>10

\* No recovery gets past the extension while something is owed.
LEMMA LateOwes ==
  ASSUME TypeInv, EndInv, Unraced, OwedInv, [Next]_vars, ~LoseAll, NEW w \in Workers,
         \/ List(w) \/ Reconcile(w) \/ Renew(w) \/ WriteManifest(w) \/ Ready(w) \/ Unfence(w)
         \/ Delete(w) \/ Install(w) \/ \E p \in Products : ReadSeed(w, p)
  PROVE  OwedInv'
<1>0. /\ owed' \subseteq owed /\ Due' \subseteq Due /\ UNCHANGED trial
      /\ Due' # {} => Due # {}
  BY DueShrinks
<1>1. Due' = {}
  <2>1. worker[w].step \notin {"idle", "inspect", "claim", "fence", "drain", "extend"}
    BY DEF List, Reconcile, Renew, WriteManifest, Ready, Unfence, Delete, Install, ReadSeed, At
  <2> QED
    BY <1>0, <2>1 DEF OwedInv, OwedOf
<1> QED
  BY <1>0, <1>1, OwedStays

LEMMA FailureOwes ==
  ASSUME TypeInv, EndInv, Unraced, OwedInv, [Next]_vars, ~LoseAll, NEW w \in Workers, Error(w) \/ Crash(w)
  PROVE  OwedInv'
<1>0. /\ owed' \subseteq owed /\ Due' \subseteq Due /\ UNCHANGED trial
      /\ Due' # {} => trial.created = {} /\ Due # {}
  BY DueShrinks
<1> SUFFICES ASSUME Due' # {}
             PROVE  /\ \A p \in Products : auth'[p].keys = "none"
                    /\ \A v \in Workers : \/ worker'[v] = worker[v]
                                          \/ worker'[v].step \in {"idle", "inspect"}
                                          \/ OwedOf(v)'
                    /\ lastEpoch' = lastEpoch /\ OwedRow'
  BY <1>0, OwedStays
<1>1. Due # {} /\ (\A p \in Products : auth[p].keys = "none") /\ OwedOf(w) /\ OwedRow
  BY <1>0 DEF OwedInv
<1>2. auth' = auth /\ lastEpoch' = lastEpoch
  BY DEF Error, Crash, GiveUp
<1>3. OthersStay(w) /\ worker'[w] = Resting
  BY Stopped
<1>4. OwedRow'
  <2>1. CASE Crash(w)
    <3>1. control'.state = control.state /\ control'.epoch = control.epoch
      BY <2>1, ControlIs DEF Crash, ControlRow
    <3> QED
      BY <1>0, <1>1, <1>2, <3>1 DEF OwedRow
  <2>2. CASE Error(w)
    <3>1. control' = control \/ (control.epoch = worker[w].epoch /\ control'.epoch = control.epoch)
      BY <2>2, ReleasedIs DEF Error, GiveUp
    <3>2. worker[w].step \in {"fence", "drain", "extend"}
      BY <1>1, <2>2 DEF Error, OwedOf
    <3>3. \A p \in Due : lastEpoch[p] < worker[w].epoch
      BY <1>1, <3>2 DEF OwedOf
    <3> QED
      BY <1>0, <1>1, <1>2, <3>1, <3>3 DEF OwedRow
  <2> QED
    BY <2>1, <2>2
<1> QED
  BY <1>1, <1>2, <1>3, <1>4 DEF OthersStay, Resting

LEMMA EnvironmentOwes ==
  ASSUME TypeInv, EndInv, Unraced, OwedInv, [Next]_vars, ~LoseAll,
         \/ UNCHANGED vars \/ Outside
         \/ \E p \in Products : \/ \E k \in {"BID", "CLOSE"} : Mutate(p, k)
                                \/ ReadBootstrap(p) \/ Bootstrap(p) \/ LoseState(p) \/ LoseStructure(p)
         \/ \E w \in Workers, p \in Products : Project(w, p)
  PROVE  OwedInv'
<1>0. /\ owed' \subseteq owed /\ Due' \subseteq Due /\ UNCHANGED trial
      /\ Due' # {} => trial.created = {} /\ Due # {}
  BY DueShrinks
<1> SUFFICES ASSUME Due' # {}
             PROVE  auth' = auth /\ worker' = worker /\ lastEpoch' = lastEpoch /\ OwedRow'
  <2>1. Due' # {} => \A p \in Products : auth[p].keys = "none"
    BY <1>0 DEF OwedInv
  <2> QED
    BY <1>0, <2>1, OwedStays
<1>1. Due # {} /\ (\A p \in Products : auth[p].keys = "none") /\ OwedRow /\ trial.created = {}
  BY <1>0 DEF OwedInv
<1>2. lastEpoch' = lastEpoch /\ control'.state = control.state /\ control'.epoch = control.epoch /\ worker' = worker
  <2>1. CASE LeaseEnds \/ Stall
    BY <2>1, ControlIs DEF LeaseEnds, Stall, ControlRow
  <2>2. CASE Outside /\ ~LeaseEnds /\ ~Stall
    BY <2>2 DEF Outside, Begin, CreateRow, LockEnds, Fetch, postgres
  <2>3. CASE UNCHANGED vars
    BY <2>3 DEF vars, postgres
  <2>4. ASSUME NEW p \in Products,
               (\E k \in {"BID", "CLOSE"} : Mutate(p, k)) \/ ReadBootstrap(p) \/ Bootstrap(p)
               \/ LoseState(p) \/ LoseStructure(p) \/ \E w \in Workers : Project(w, p)
        PROVE  lastEpoch' = lastEpoch /\ control' = control /\ worker' = worker
    BY <2>4 DEF Mutate, ReadBootstrap, Bootstrap, LoseState, LoseStructure, Project, postgres
  <2> QED
    BY <2>1, <2>2, <2>3, <2>4
<1>3. OwedRow'
  BY <1>0, <1>1, <1>2 DEF OwedRow
<1>4. auth' = auth
  <2>1. ASSUME NEW p \in Products, NEW k \in {"BID", "CLOSE"}
        PROVE  ~Mutate(p, k) /\ ~LoseState(p) /\ ~LoseStructure(p) /\ ~Bootstrap(p)
    BY <1>1 DEF Mutate, Writable, LoseState, LoseStructure, Bootstrap, TypeInv, CountsInv
  <2>2. \A p \in Products : ReadBootstrap(p) => auth' = auth
    BY DEF ReadBootstrap
  <2>3. \A w \in Workers, p \in Products : Project(w, p) => auth' = auth
    BY DEF Project
  <2> QED
    BY <2>1, <2>2, <2>3, OutsideIs DEF vars, redis
<1> QED
  BY <1>2, <1>3, <1>4

LEMMA LossOwes ==
  ASSUME TypeInv, OwedInv, LoseAll
  PROVE  OwedInv'
<1>1. /\ UNCHANGED <<trial, rows, log, lastEpoch, control, worker>> /\ "all" \in trial.faults
      /\ \A p \in Products : auth'[p].keys = "none"
      /\ owed' = owed \cup {p \in activeProductIds : Healthy}
  BY DEF LoseAll, postgres, NoState, Fault
<1>2. activeProductIds' = activeProductIds
  BY <1>1 DEF activeProductIds, RowStatus, OpeningStatus
<1>3. CASE Healthy
  <2>1. \A w \in Workers : OwedOf(w)'
    BY <1>1, <1>3 DEF OwedOf, Healthy, At
  <2>2. OwedRow'
    BY <1>1, <1>3 DEF OwedRow, Healthy
  <2> QED
    BY <1>1, <2>1, <2>2 DEF OwedInv
<1>4. CASE ~Healthy
  <2>1. owed' = owed /\ Due' = Due
    BY <1>1, <1>2, <1>4 DEF Due
  <2> QED
    BY <1>1, <2>1 DEF OwedInv, OwedOf, OwedRow
<1> QED
  BY <1>3, <1>4

LEMMA NextOwes ==
  ASSUME TypeInv, EndInv, LossInv, [Next]_vars
  PROVE  LossInv'
<1> SUFFICES ASSUME Unraced
             PROVE  Watched' /\ OwedInv'
  BY TrialStays DEF LossInv, Unraced
<1>1. Watched /\ OwedInv
  BY DEF LossInv
<1>2. CASE LoseAll
  BY <1>1, <1>2, WatchedStays, LossOwes
<1>3. CASE ~LoseAll
  <2>1. ASSUME NEW w \in Workers, Passing(w)
        PROVE  OwedInv'
    BY <1>1, <1>3, <2>1, EarlyOwes, LateOwes, FailureOwes DEF Passing
  <2>2. ASSUME NEW w \in Workers, Delete(w) \/ Install(w) \/ \E p \in Products : ReadSeed(w, p)
        PROVE  OwedInv'
    BY <1>1, <1>3, <2>2, LateOwes
  <2> QED
    BY <1>1, <1>3, <2>1, <2>2, WatchedStays, EnvironmentOwes, NextIs
<1> QED
  BY <1>2, <1>3

LEMMA InitOwes ==
  ASSUME Init
  PROVE  LossInv
BY DEF Init, LossInv, Watched, OwedInv, Due, At, Resting

LEMMA OwesSuffice ==
  ASSUME LossInv, TypeInv
  PROVE  TotalLossIsExtended
<1> SUFFICES ASSUME Healthy, Unraced, Due # {}
             PROVE  FALSE
  BY DEF TotalLossIsExtended, Due
<1>1. \A p \in Products : auth[p].keys = "none"
  BY DEF LossInv, OwedInv
<1>2. PICK p \in activeProductIds : p \in Due
  BY DEF Due
<1>3. p \in Products /\ ~Missing(p)
  BY <1>2, ActiveIs DEF Healthy
<1> QED
  BY <1>1, <1>3 DEF Missing

\* Once all is healthy again after a total loss of Redis, every auction that the
\* loss interrupted has been extended or is over, with any number of workers and
\* however often a recovery failed, stopped, lost its lease or was resumed: until
\* then Redis stays empty, every recovery on its way is one of a total loss, and
\* its epoch is above the last one of the auctions still to be extended
\* (extendInterruptedAuctions, last_authority_recovery_epoch).
THEOREM TotalLossesAreExtended == Spec => []TotalLossIsExtended
<1>1. Init => TypeInv /\ EndInv /\ LossInv
  BY InitTypes, InitEnds, InitOwes
<1>2. TypeInv /\ EndInv /\ LossInv /\ [Next]_vars => (TypeInv /\ EndInv /\ LossInv)'
  <2>1. TypeInv /\ [Next]_vars => TypeInv'
    BY NextTypes, StayTypes
  <2> QED
    BY <2>1, NextEnds, NextOwes
<1>3. TypeInv /\ EndInv /\ LossInv => TotalLossIsExtended
  BY OwesSuffice
<1> QED
  BY <1>1, <1>2, <1>3, PTL DEF Spec

-----------------------------------------------------------------------------
(* With one worker and no stall: an auction is extended once for each loss. *)

\* The one worker, and what is known when it takes a step.
Sole(w) == trial.workers = {w} /\ OthersRest /\ trial.created = {}

LEMMA RestDoes ==
  ASSUME NEW v \in Workers, NEW p \in Products, worker[v] = Resting
  PROVE  OwnOf(v) /\ Rebuilds(v, p) /\ FullOf(v) /\ worker[v].step # "install"
BY DEF OwnOf, Owning, Rebuilds, Rebuilding, FullOf, Resting

LEMMA SoleStays ==
  ASSUME NEW w \in Workers, Sole(w), OthersStay(w), UNCHANGED trial
  PROVE  \A v \in Workers \ {w} : worker[v] = Resting /\ worker'[v] = Resting
BY DEF Sole, OthersRest, OthersStay

LEMMA WorkerOwns ==
  ASSUME NEW w \in Workers, Sole(w), OthersStay(w), UNCHANGED trial, OwnOf(w)', \A p \in Products : LockOf(p)'
  PROVE  OwnInv'
<1>1. ASSUME NEW v \in Workers
      PROVE  OwnOf(v)'
  <2>1. CASE v # w
    BY <2>1, SoleStays DEF OwnOf, Owning, Resting
  <2> QED
    BY <2>1
<1> QED
  BY <1>1 DEF OwnInv

\* A step that gives no lock and leaves the row, or makes it nobody's.
LEMMA LocksStay ==
  ASSUME OwnInv, NEW p \in Products, locks'[p] \in {locks[p], Nobody},
         locks'[p] \in Workers => worker'[locks[p]] = worker[locks[p]],
         Gone \notin Workers /\ Gone # Nobody,
         locks'[p] = Gone => control'.owner = control.owner /\ control'.leased = control.leased
  PROVE  LockOf(p)'
BY DEF OwnInv, LockOf

\* Nothing becomes broken by a step that leaves, restores or gives up what it touches.
LEMMA WorkerBreaks ==
  ASSUME TypeInv, BrokenInv, NEW w \in Workers, Sole(w), OthersStay(w),
         UNCHANGED <<rows, log, lastEpoch, needless, trial>>, lost \subseteq lost',
         \A p \in Products : \/ auth'[p].keys = auth[p].keys \/ p \in lost' \/ auth'[p].keys = "whole"
                             \/ (worker'[w].step = "install" /\ p \in worker'[w].product),
         worker[w].step = "install" => \A p \in worker[w].product :
            \/ p \in lost' \/ auth'[p].keys = "whole" \/ (worker'[w].step = "install" /\ p \in worker'[w].product),
         (\E p \in Products : Broken(p)) => control'.epoch = control.epoch /\ control'.state # "READY",
         \A p \in Products : Broken(p) /\ Broken(p)' => Rebuilds(w, p)',
         FullOf(w)'
  PROVE  BrokenInv'
<1>1. \A v \in Workers \ {w} : worker[v] = Resting /\ worker'[v] = Resting
  BY SoleStays
<1>2. activeProductIds' = activeProductIds
  BY DEF activeProductIds, RowStatus, OpeningStatus
<1>3. ASSUME NEW p \in Products, Broken(p)'
      PROVE  Broken(p)
  <2>1. /\ p \in activeProductIds \ lost /\ p \notin lost' /\ auth'[p].keys # "whole"
        /\ ~(worker'[w].step = "install" /\ p \in worker'[w].product)
    BY <1>2, <1>3 DEF Broken
  <2>2. auth[p].keys # "whole" /\ ~(worker[w].step = "install" /\ p \in worker[w].product)
    BY <2>1
  <2>3. \A v \in Workers \ {w} : worker[v].step # "install"
    BY <1>1 DEF Resting
  <2> QED
    BY <2>1, <2>2, <2>3 DEF Broken
<1>4. ASSUME NEW p \in Products
      PROVE  BrokenOf(p)'
  <2> SUFFICES ASSUME Broken(p)'
               PROVE  /\ lastEpoch'[p] = control'.epoch /\ control'.state # "READY"
                      /\ \A v \in Workers : Rebuilds(v, p)'
    BY DEF BrokenOf
  <2>1. Broken(p)
    BY <1>3
  <2>2. lastEpoch[p] = control.epoch
    BY <2>1 DEF BrokenInv, BrokenOf
  <2>3. \A v \in Workers \ {w} : Rebuilds(v, p)'
    BY <1>1 DEF Rebuilds, Rebuilding, Resting
  <2> QED
    BY <2>1, <2>2, <2>3
<1>5. \A v \in Workers : FullOf(v)'
  BY <1>1 DEF FullOf, Resting
<1> QED
  BY <1>4, <1>5 DEF BrokenInv

\* A step of the environment: what a worker does stays, and a loss is counted.
LEMMA EnvironmentBreaks ==
  ASSUME TypeInv, BrokenInv, UNCHANGED <<worker, lastEpoch, needless, trial>>,
         activeProductIds' \subseteq activeProductIds,
         control'.epoch = control.epoch, control'.state = control.state,
         \A p \in Products : p \in lost' \/ (/\ p \notin lost /\ auth'[p].keys = auth[p].keys
                                             /\ p \in auctionFence => p \in auctionFence')
  PROVE  BrokenInv'
<1>1. ASSUME NEW p \in Products
      PROVE  BrokenOf(p)'
  <2>1. Broken(p)' => Broken(p)
    BY DEF Broken
  <2> QED
    BY <2>1 DEF BrokenInv, BrokenOf, Rebuilds, Rebuilding, Scope, Global
<1>2. activeProductIds' \subseteq Products
  BY ActiveIs
<1>3. \A w \in Workers : FullOf(w)'
  BY <1>2 DEF BrokenInv, FullOf
<1> QED
  BY <1>1, <1>3 DEF BrokenInv

SoleInv(w) == Sole(w) /\ Watched /\ DrainInv /\ OwnInv /\ BrokenInv

LEMMA NamesAre ==
  ASSUME NEW w \in Workers
  PROVE  w # Gone /\ w # Nobody /\ Gone # Nobody
BY RecoveryAssumption DEF Gone, Nobody

LEMMA FreeLocks ==
  ASSUME NEW w \in Workers, Sole(w), OwnInv, worker[w].step \notin {"delete", "install"}, NEW p \in Products
  PROVE  locks[p] \in {Nobody, Gone} /\ (locks[p] = Gone => control.owner = Gone /\ control.leased)
<1>1. \A v \in Workers \ {w} : worker[v].step = "idle"
  BY DEF Sole, OthersRest, Resting
<1> QED
  BY <1>1 DEF OwnInv, LockOf

\* A step outside a rebuild, that takes and gives no lock.
LEMMA QuietOwns ==
  ASSUME NEW w \in Workers, Sole(w), OwnInv, OthersStay(w), UNCHANGED <<trial, locks>>,
         worker[w].step \notin {"delete", "install"},
         control.owner = Gone /\ control.leased => control'.owner = Gone /\ control'.leased,
         OwnOf(w)'
  PROVE  OwnInv'
<1>1. \A p \in Products : LockOf(p)'
  BY FreeLocks DEF LockOf
<1> QED
  BY <1>1, WorkerOwns

\* The worker that has claimed the row owns it, so no lock is left behind.
LEMMA Owned ==
  ASSUME TypeInv, NEW w \in Workers, OwnInv, worker[w].step \in Owning
  PROVE  /\ control.state = "RECOVERING" /\ control.owner = w /\ control.leased /\ control.epoch = worker[w].epoch
         /\ control = [state |-> "RECOVERING", owner |-> w, leased |-> TRUE, epoch |-> worker[w].epoch]
         /\ control.owner # Gone /\ ~LeaseLost(w)
<1>1. control = [state |-> "RECOVERING", owner |-> w, leased |-> TRUE, epoch |-> worker[w].epoch]
  BY DEF OwnInv, OwnOf
<1> QED
  BY <1>1, NamesAre DEF LeaseLost

\* A renewed lease was held already.
LEMMA RenewedStays ==
  ASSUME TypeInv, control.leased, NEW w \in Workers, Renewed(w)
  PROVE  control' = control
<1>1. control \in ControlRow /\ control.leased = TRUE
  BY ControlIs DEF ControlRow
<1>2. [control EXCEPT !.leased = TRUE] = control
  BY <1>1 DEF ControlRow
<1> QED
  BY <1>2 DEF Renewed

LEMMA ObserveExtends ==
  ASSUME TypeInv, NEW w \in Workers, SoleInv(w), Observe(w)
  PROVE  OwnInv' /\ BrokenInv'
<1>1. /\ OthersStay(w) /\ worker'[w].step = "inspect" /\ worker[w].step = "idle"
      /\ UNCHANGED <<auth, locks, rows, log, lastEpoch, control, lost, needless, trial>>
  BY Observed DEF Observe, redis, postgres, history, At
<1>2. OwnInv'
  BY <1>1, QuietOwns DEF SoleInv, OwnOf, Owning
<1>3. BrokenInv'
  <2>1. FullOf(w)' /\ \A p \in Products : Rebuilds(w, p)'
    BY <1>1 DEF FullOf, Rebuilds, Rebuilding
  <2>2. (\E p \in Products : Broken(p)) => control.state # "READY"
    BY DEF SoleInv, BrokenInv, BrokenOf
  <2> QED
    BY <1>1, <2>1, <2>2, WorkerBreaks DEF SoleInv
<1> QED
  BY <1>2, <1>3

LEMMA InspectExtends ==
  ASSUME TypeInv, NEW w \in Workers, SoleInv(w), Inspect(w)
  PROVE  OwnInv' /\ BrokenInv'
<1>1. /\ OthersStay(w) /\ worker[w].step = "inspect"
      /\ UNCHANGED <<auth, auctionFence, locks, rows, log, lastEpoch, control, lost, needless, trial>>
  BY Inspected DEF Inspect, postgres, history, At
<1>2. \/ (\A p \in worker[w].todo : ~Missing(p)) /\ worker'[w] = Resting
      \/ /\ worker'[w].step = "claim" /\ worker'[w].trigger = Trigger(worker[w].todo)
         /\ worker'[w].targets = IF Trigger(worker[w].todo) = "PARTIAL_STATE_LOSS"
                                 THEN {p \in worker[w].todo : Missing(p)} ELSE {}
  BY Inspected
<1>3. activeProductIds \subseteq worker[w].todo
  BY <1>1 DEF SoleInv, Sole, Watched, At
<1>4. OwnInv'
  <2>1. OwnOf(w)'
    BY <1>2 DEF OwnOf, Owning, Resting
  <2> QED
    BY <1>1, <2>1, QuietOwns DEF SoleInv
<1>5. FullOf(w)'
  <2> SUFFICES ASSUME worker'[w].step = "claim", worker'[w].trigger = "FULL_DATA_LOSS"
               PROVE  \A p \in activeProductIds' : auth'[p].keys # "whole" \/ p \in auctionFence' \/ p \in lost'
    BY <1>2 DEF FullOf, Resting
  <2>1. \A p \in worker[w].todo : Missing(p)
    BY <1>2 DEF Trigger, Resting
  <2>2. activeProductIds' = activeProductIds
    BY <1>1 DEF activeProductIds, RowStatus, OpeningStatus
  <2> QED
    BY <1>1, <1>3, <2>1, <2>2 DEF Missing
<1>6. ASSUME NEW p \in Products, Broken(p)
      PROVE  Rebuilds(w, p)'
  <2>1. p \in worker[w].todo /\ Missing(p)
    BY <1>3, <1>6 DEF Broken, Missing
  <2>2. worker'[w].step = "claim" /\ worker'[w].trigger = Trigger(worker[w].todo)
    BY <1>2, <2>1
  <2>3. p \in Scope(w)'
    BY <1>2, <2>1, <2>2, <1>6 DEF Scope, Global, Resting
  <2> QED
    BY <2>2, <2>3 DEF Rebuilds, Rebuilding
<1>7. (\E p \in Products : Broken(p)) => control.state # "READY"
  BY DEF SoleInv, BrokenInv, BrokenOf
<1>8. BrokenInv'
  BY <1>1, <1>5, <1>6, <1>7, WorkerBreaks DEF SoleInv
<1> QED
  BY <1>4, <1>8

LEMMA ClaimExtends ==
  ASSUME TypeInv, NEW w \in Workers, SoleInv(w), Claim(w)
  PROVE  OwnInv' /\ BrokenInv'
<1>1. /\ OthersStay(w) /\ worker[w].step = "claim"
      /\ UNCHANGED <<auth, auctionFence, locks, rows, log, lastEpoch, lost, needless, trial>>
  BY Claimed DEF Claim, redis, history, At
<1>2. \/ worker'[w] = Resting /\ control' = control
      \/ /\ ~control.leased \/ control.owner = w
         /\ control' = [state |-> "RECOVERING", owner |-> w, leased |-> TRUE, epoch |-> ClaimedEpoch]
         /\ worker'[w].step = "fence" /\ worker'[w].epoch = ClaimedEpoch /\ SameRecovery(w)
  BY Claimed
<1>3. OwnInv'
  <2>1. OwnOf(w)'
    BY <1>2 DEF OwnOf, Owning, Resting
  <2> QED
    BY <1>1, <1>2, <2>1, QuietOwns, NamesAre DEF SoleInv
<1>4. activeProductIds' = activeProductIds
  BY <1>1 DEF activeProductIds, RowStatus, OpeningStatus
<1>5. FullOf(w)'
  <2>1. FullOf(w)
    BY DEF SoleInv, BrokenInv
  <2> QED
    BY <1>1, <1>2, <1>4, <2>1 DEF FullOf, SameRecovery, Resting
<1>6. ASSUME NEW p \in Products, Broken(p)
      PROVE  Rebuilds(w, p)' /\ control'.epoch = control.epoch /\ control'.state # "READY"
  <2>1. control.state # "READY" /\ p \in Scope(w)
    BY <1>1, <1>6 DEF SoleInv, BrokenInv, BrokenOf, Rebuilds
  <2>2. ClaimedEpoch = control.epoch
    BY <2>1 DEF ClaimedEpoch
  <2>3. CASE worker'[w] = Resting /\ control' = control
    BY <2>1, <2>3 DEF Rebuilds, Rebuilding, Resting
  <2>4. CASE worker'[w].step = "fence" /\ SameRecovery(w)
             /\ control' = [state |-> "RECOVERING", owner |-> w, leased |-> TRUE, epoch |-> ClaimedEpoch]
    BY <2>1, <2>2, <2>4, SameScope DEF Rebuilds, Rebuilding
  <2> QED
    BY <1>2, <2>3, <2>4
<1>7. BrokenInv'
  BY <1>1, <1>5, <1>6, WorkerBreaks DEF SoleInv
<1> QED
  BY <1>3, <1>7

\* A step that the recovery takes on its own row, to another step s of it.
LEMMA GoesOn ==
  ASSUME TypeInv, NEW w \in Workers, SoleInv(w), worker[w].step \in Owning, worker'[w].step \in Owning,
         OthersStay(w), UNCHANGED <<control, trial>>, worker'[w].epoch = worker[w].epoch,
         \A p \in Products : LockOf(p)'
  PROVE  OwnInv'
<1>1. OwnOf(w)'
  BY Owned DEF OwnOf, SoleInv
<1> QED
  BY <1>1, WorkerOwns DEF SoleInv

LEMMA FenceExtends ==
  ASSUME TypeInv, NEW w \in Workers, SoleInv(w), Fence(w) \/ Drain(w)
  PROVE  OwnInv' /\ BrokenInv'
<1>1. worker[w].step \in {"fence", "drain"}
  BY DEF Fence, Drain, At
<1>2. control' = control /\ ~LeaseLost(w) /\ control.state = "RECOVERING" /\ control.owner # Gone
  <2>1. control.owner = w /\ control.epoch = worker[w].epoch /\ control.leased /\ ~LeaseLost(w)
        /\ control = [state |-> "RECOVERING", owner |-> w, leased |-> TRUE, epoch |-> worker[w].epoch]
        /\ control.state = "RECOVERING" /\ control.owner # Gone
    BY <1>1, Owned DEF SoleInv, Owning
  <2>2. [control EXCEPT !.leased = TRUE] = control
    BY <2>1
  <2> QED
    BY <2>1, <2>2 DEF Fence, Drain, postgres, Renewed
<1>3. /\ OthersStay(w) /\ SameRecovery(w) /\ worker'[w].step \in {"drain", "extend"}
      /\ worker'[w].epoch = worker[w].epoch
      /\ UNCHANGED <<auth, locks, rows, log, lastEpoch, lost, needless, trial>>
      /\ auctionFence \subseteq auctionFence'
  <2>1. CASE Fence(w)
    BY <2>1, Went DEF Fence, Phases, postgres, history
  <2>2. CASE Drain(w)
    <3>1. CASE Goto(w, "extend")
      BY <1>2, <2>2, <3>1, Went DEF Drain, Phases, redis, postgres, history, Renewed
    <3>2. CASE UNCHANGED worker
      BY <1>2, <2>2, <3>2 DEF Drain, redis, postgres, history, Renewed, OthersStay, SameRecovery, At
    <3> QED
      BY <1>2, <2>2, <3>1, <3>2 DEF Drain
  <2> QED
    BY <2>1, <2>2
<1>4. OwnInv'
  <2>1. OwnOf(w)'
    BY <1>1, <1>2, <1>3, Owned DEF OwnOf, Owning, SoleInv
  <2> QED
    BY <1>1, <1>2, <1>3, <2>1, QuietOwns DEF SoleInv
<1>5. activeProductIds' = activeProductIds
  BY <1>3 DEF activeProductIds, RowStatus, OpeningStatus
<1>6. FullOf(w)'
  <2>1. FullOf(w)
    BY DEF SoleInv, BrokenInv
  <2> QED
    BY <1>1, <1>3, <1>5, <2>1 DEF FullOf, SameRecovery
<1>7. ASSUME NEW p \in Products, Broken(p)
      PROVE  Rebuilds(w, p)'
  <2>1. p \in Scope(w)
    BY <1>1, <1>7 DEF SoleInv, BrokenInv, BrokenOf, Rebuilds
  <2> QED
    BY <1>3, <2>1, SameScope DEF Rebuilds, Rebuilding
<1>8. BrokenInv'
  BY <1>1, <1>2, <1>3, <1>6, <1>7, WorkerBreaks DEF SoleInv
<1> QED
  BY <1>4, <1>8

\* An extension that nothing was lost for is one of an auction under a fence.
LEMMA ExtendExtends ==
  ASSUME TypeInv, NEW w \in Workers, SoleInv(w), Extend(w)
  PROVE  OwnInv' /\ BrokenInv'
<1>1. /\ worker[w].step = "extend" /\ OthersStay(w) /\ SameRecovery(w) /\ worker'[w].step = "list"
      /\ worker'[w].epoch = worker[w].epoch
      /\ UNCHANGED <<auth, auctionFence, locks, rows, log, control, trial>>
  BY Went DEF Extend, At, Phases, redis
<1>2. /\ lastEpoch' = [p \in Products |-> IF p \in Interrupted(w) THEN worker[w].epoch ELSE lastEpoch[p]]
      /\ needless' = needless \cup {[product |-> p, fenced |-> p \in auctionFence] : p \in Interrupted(w) \ lost}
      /\ lost' = lost \ Interrupted(w)
  BY DEF Extend
<1>3. control.epoch = worker[w].epoch /\ control.state = "RECOVERING"
  BY <1>1, Owned DEF SoleInv, Owning
<1>4. OwnInv'
  <2>1. OwnOf(w)'
    BY <1>1, Owned DEF OwnOf, Owning, SoleInv
  <2> QED
    BY <1>1, <2>1, QuietOwns DEF SoleInv
<1>5. activeProductIds' = activeProductIds
  BY <1>1 DEF activeProductIds, RowStatus, OpeningStatus
<1>6. \A v \in Workers \ {w} : worker[v] = Resting /\ worker'[v] = Resting
  BY <1>1, SoleStays DEF SoleInv
<1>7. \A v \in Workers : worker[v].step # "install"
  BY <1>1, <1>6 DEF Resting
<1>8. ASSUME NEW p \in Interrupted(w) \ lost
      PROVE  p \in auctionFence
  <2>1. p \in Products /\ p \in activeProductIds /\ worker[w].trigger = "FULL_DATA_LOSS" /\ lastEpoch[p] < worker[w].epoch
    BY ActiveIs DEF Interrupted
  <2>2. auth[p].keys # "whole" \/ p \in auctionFence
    BY <1>1, <1>8, <2>1 DEF SoleInv, BrokenInv, FullOf
  <2>3. auth[p].keys # "whole" => Broken(p)
    BY <1>7, <1>8, <2>1 DEF Broken
  <2>4. Broken(p) => lastEpoch[p] = worker[w].epoch
    BY <1>3, <2>1 DEF SoleInv, BrokenInv, BrokenOf
  <2>5. worker[w].epoch \in Nat
    BY ControlIs DEF Cycling
  <2> QED
    BY <2>1, <2>2, <2>3, <2>4, <2>5
<1>9. ASSUME NEW e \in needless'
      PROVE  e.fenced
  <2>1. CASE e \in needless
    BY <2>1 DEF SoleInv, BrokenInv
  <2>2. CASE e \notin needless
    <3>1. PICK p \in Interrupted(w) \ lost : e = [product |-> p, fenced |-> p \in auctionFence]
      BY <1>2, <2>2
    <3> QED
      BY <1>8, <3>1
  <2> QED
    BY <2>1, <2>2
<1>10. ASSUME NEW p \in Products, Broken(p)'
       PROVE  /\ lastEpoch'[p] = control'.epoch /\ control'.state # "READY"
              /\ \A v \in Workers : Rebuilds(v, p)'
  <2>1. p \in activeProductIds /\ p \notin lost' /\ auth[p].keys # "whole"
    BY <1>1, <1>5, <1>10 DEF Broken
  <2>2. ASSUME NEW v \in Workers
        PROVE  Rebuilds(v, p)'
    <3>1. CASE v # w
      BY <1>6, <3>1 DEF Rebuilds, Rebuilding, Resting
    <3>2. CASE v = w
      <4>1. p \in Scope(w)
        <5>1. CASE p \in Interrupted(w)
          BY <5>1 DEF Interrupted, Scope, Global
        <5>2. CASE p \notin Interrupted(w)
          <6>1. p \notin lost
            BY <1>2, <2>1, <5>2
          <6>2. Broken(p)
            BY <1>7, <2>1, <6>1 DEF Broken
          <6> QED
            BY <1>1, <6>2 DEF SoleInv, BrokenInv, BrokenOf, Rebuilds
        <5> QED
          BY <5>1, <5>2
      <4> QED
        BY <1>1, <3>2, <4>1, SameScope DEF Rebuilds, Rebuilding
    <3> QED
      BY <3>1, <3>2
  <2>3. lastEpoch'[p] = control.epoch
    <3>1. CASE p \in Interrupted(w)
      BY <1>2, <1>3, <3>1
    <3>2. CASE p \notin Interrupted(w)
      <4>1. Broken(p)
        BY <1>2, <1>7, <2>1, <3>2 DEF Broken
      <4> QED
        BY <1>2, <3>2, <4>1 DEF SoleInv, BrokenInv, BrokenOf
    <3> QED
      BY <3>1, <3>2
  <2> QED
    BY <1>1, <1>3, <2>2, <2>3
<1>11. ASSUME NEW v \in Workers
       PROVE  FullOf(v)'
  BY <1>1, <1>6 DEF FullOf, Resting
<1>12. \A p \in Products : BrokenOf(p)'
  BY <1>10 DEF BrokenOf
<1> QED
  BY <1>4, <1>9, <1>11, <1>12 DEF BrokenInv

LEMMA ListExtends ==
  ASSUME TypeInv, NEW w \in Workers, SoleInv(w), List(w) \/ Renew(w)
  PROVE  OwnInv' /\ BrokenInv'
<1>1. worker[w].step \in {"list", "renew"}
  BY DEF List, Renew, At
<1>2. /\ control = [state |-> "RECOVERING", owner |-> w, leased |-> TRUE, epoch |-> worker[w].epoch]
      /\ ~LeaseLost(w) /\ control.state = "RECOVERING" /\ control.owner # Gone
  BY <1>1, Owned DEF SoleInv, Owning
<1>3. OthersStay(w) /\ SameRecovery(w) /\ Renewed(w) /\ worker'[w].step = "next" /\ worker'[w].epoch = worker[w].epoch
  BY <1>2, Listed, WentOn
<1>4. control' = control
  BY <1>1, <1>3, Owned, RenewedStays DEF SoleInv, Owning
<1>5. UNCHANGED <<auth, locks, rows, log, lastEpoch, lost, needless, trial>>
  BY <1>3 DEF List, Renew, Renewed, redis, history
<1>6. OwnInv'
  <2>1. OwnOf(w)'
    BY <1>2, <1>3, <1>4 DEF OwnOf
  <2> QED
    BY <1>1, <1>3, <1>4, <1>5, <2>1, QuietOwns DEF SoleInv
<1>7. ASSUME NEW p \in Products, Broken(p)
      PROVE  Rebuilds(w, p)'
  <2>0. Rebuilds(w, p) /\ p \in activeProductIds
    BY <1>7 DEF SoleInv, BrokenInv, BrokenOf, Broken
  <2>1. p \in worker'[w].todo
    <3>1. CASE List(w)
      BY <1>2, <2>0, <3>1, Listed DEF Rebuilds, Scope, List, At
    <3>2. CASE Renew(w)
      BY <1>2, <2>0, <3>2, WentOn DEF Rebuilds, Rebuilding, Renew, At
    <3> QED
      BY <3>1, <3>2
  <2> QED
    BY <1>3, <2>1 DEF Rebuilds, Rebuilding
<1>8. BrokenInv'
  <2>1. FullOf(w)'
    BY <1>3 DEF FullOf
  <2> QED
    BY <1>1, <1>2, <1>3, <1>4, <1>5, <1>7, <2>1, WorkerBreaks DEF SoleInv
<1> QED
  BY <1>6, <1>8

LEMMA ReadSeedExtends ==
  ASSUME TypeInv, NEW w \in Workers, NEW p \in Products, SoleInv(w), ReadSeed(w, p)
  PROVE  OwnInv' /\ BrokenInv'
<1>1. worker[w].step = "next"
  BY DEF ReadSeed, At
<1>2. /\ control = [state |-> "RECOVERING", owner |-> w, leased |-> TRUE, epoch |-> worker[w].epoch]
      /\ control.state = "RECOVERING" /\ control.owner # Gone
  BY <1>1, Owned DEF SoleInv, Owning
<1>3. \A q \in Products : locks[q] = Nobody
  BY <1>1, <1>2, FreeLocks DEF SoleInv
<1>4. /\ OthersStay(w) /\ worker'[w].todo = worker[w].todo /\ worker'[w].product = {p}
      /\ worker'[w].epoch = worker[w].epoch /\ worker'[w].step = "delete"
  BY <1>3, SeedRead
<1>5. /\ UNCHANGED <<auth, rows, log, lastEpoch, control, lost, needless, trial>>
      /\ \A q \in Products : locks'[q] = IF q = p THEN w ELSE Nobody
  BY <1>3 DEF ReadSeed, postgres, history, TypeInv, RedisInv
<1>6. OwnInv'
  <2>1. \A q \in Products : LockOf(q)'
    BY <1>4, <1>5, NamesAre DEF LockOf
  <2> QED
    BY <1>1, <1>4, <1>5, <2>1, GoesOn DEF Owning
<1>7. ASSUME NEW q \in Products, Broken(q)
      PROVE  Rebuilds(w, q)'
  BY <1>1, <1>4, <1>7 DEF SoleInv, BrokenInv, BrokenOf, Rebuilds, Rebuilding
<1>8. BrokenInv'
  <2>1. FullOf(w)'
    BY <1>4 DEF FullOf
  <2> QED
    BY <1>1, <1>2, <1>4, <1>5, <1>7, <2>1, WorkerBreaks DEF SoleInv
<1> QED
  BY <1>6, <1>8

LEMMA DeleteExtends ==
  ASSUME TypeInv, NEW w \in Workers, SoleInv(w), Delete(w)
  PROVE  OwnInv' /\ BrokenInv'
<1>1. /\ worker[w].step = "delete" /\ OthersStay(w) /\ worker'[w].step = "install"
      /\ worker'[w].product = worker[w].product /\ worker'[w].todo = worker[w].todo
      /\ worker'[w].epoch = worker[w].epoch
      /\ UNCHANGED <<locks, rows, log, lastEpoch, control, lost, needless, trial>>
      /\ \A p \in Products : p \notin worker[w].product => auth'[p] = auth[p]
  BY Went DEF Delete, At, Phases, postgres, history
<1>2. control.state = "RECOVERING" /\ control.owner # Gone
  BY <1>1, Owned DEF SoleInv, Owning
<1>3. ASSUME NEW p \in Products
      PROVE  LockOf(p)'
  <2>1. LockOf(p)
    BY DEF SoleInv, OwnInv
  <2> QED
    BY <1>1, <2>1 DEF LockOf, OthersStay
<1>4. OwnInv'
  BY <1>1, <1>3, GoesOn DEF Owning
<1>5. ASSUME NEW q \in Products, Broken(q)
      PROVE  Rebuilds(w, q)'
  BY <1>1, <1>5 DEF SoleInv, BrokenInv, BrokenOf, Rebuilds, Rebuilding
<1>6. BrokenInv'
  <2>1. FullOf(w)'
    BY <1>1 DEF FullOf
  <2> QED
    BY <1>1, <1>2, <1>5, <2>1, WorkerBreaks DEF SoleInv
<1> QED
  BY <1>4, <1>6

LEMMA InstallExtends ==
  ASSUME TypeInv, NEW w \in Workers, SoleInv(w), Install(w)
  PROVE  OwnInv' /\ BrokenInv'
<1>1. /\ worker[w].step = "install" /\ OthersStay(w) /\ worker'[w].step = "reconcile"
      /\ worker'[w].product = worker[w].product /\ worker'[w].todo = worker[w].todo
      /\ worker'[w].epoch = worker[w].epoch
      /\ UNCHANGED <<rows, log, lastEpoch, control, lost, needless, trial>>
  BY Went DEF Install, At, Phases, postgres, history
<1>2. \A p \in Products : IF p \in worker[w].product THEN auth'[p].keys = "whole" ELSE auth'[p] = auth[p]
  <2>1. worker[w].seed.keys = "whole" /\ \A p \in worker[w].product : auth[p].keys = "none"
    BY <1>1 DEF SoleInv, DrainInv, DrainOf
  <2> QED
    BY <2>1 DEF Install
<1>3. control.state = "RECOVERING" /\ control.owner # Gone
  BY <1>1, Owned DEF SoleInv, Owning
<1>4. ASSUME NEW p \in Products
      PROVE  LockOf(p)'
  <2>1. locks[p] = Nobody \/ (locks[p] = w /\ p \in worker[w].product)
    <3>1. LockOf(p) /\ \A v \in Workers \ {w} : worker[v].step = "idle"
      BY DEF SoleInv, OwnInv, Sole, OthersRest, Resting
    <3> QED
      BY <1>3, <3>1 DEF LockOf
  <2>2. locks'[p] = Nobody
    BY <2>1 DEF Install
  <2> QED
    BY <2>2, NamesAre DEF LockOf
<1>5. OwnInv'
  BY <1>1, <1>4, GoesOn DEF Owning
<1>6. ASSUME NEW q \in Products, Broken(q), Broken(q)'
      PROVE  Rebuilds(w, q)'
  <2>1. q \notin worker[w].product
    BY <1>2, <1>6 DEF Broken
  <2> QED
    BY <1>1, <1>6, <2>1 DEF SoleInv, BrokenInv, BrokenOf, Rebuilds, Rebuilding
<1>7. BrokenInv'
  <2>1. FullOf(w)'
    BY <1>1 DEF FullOf
  <2>2. worker[w].product \subseteq Products
    BY ControlIs DEF Cycling
  <2> QED
    BY <1>1, <1>2, <1>3, <1>6, <2>1, <2>2, WorkerBreaks DEF SoleInv
<1> QED
  BY <1>5, <1>7

LEMMA EndExtends ==
  ASSUME TypeInv, NEW w \in Workers, SoleInv(w), WriteManifest(w) \/ Ready(w) \/ Unfence(w)
  PROVE  OwnInv' /\ BrokenInv'
<1>1. /\ worker[w].step \in {"next", "ready", "unfence"} /\ OthersStay(w)
      /\ UNCHANGED <<auth, locks, rows, log, lastEpoch, lost, needless, trial>>
      /\ Unfence(w) \/ (worker'[w].step \in {"ready", "unfence"} /\ worker'[w].epoch = worker[w].epoch)
  BY Went, Stopped DEF WriteManifest, Ready, Unfence, At, Phases, postgres, redis, history
<1>2. ASSUME NEW p \in Products, Broken(p)
      PROVE  Unfence(w) /\ control.state # "READY"
  <2>1. control.state # "READY" /\ Rebuilds(w, p)
    BY <1>2 DEF SoleInv, BrokenInv, BrokenOf
  <2>2. ~WriteManifest(w)
    BY <2>1 DEF WriteManifest, Rebuilds, Rebuilding, At
  <2>3. ~Ready(w)
    BY <2>1 DEF Ready, Rebuilds, At
  <2> QED
    BY <2>1, <2>2, <2>3
<1>3. Unfence(w) => control' = control /\ worker'[w] = Resting
  BY Stopped DEF Unfence, postgres
<1>4. Resting.step = "idle"
  BY DEF Resting
<1>5. OwnInv'
  <2>1. control.owner = Gone /\ control.leased => control'.owner = Gone /\ control'.leased
    <3>1. CASE WriteManifest(w) \/ Unfence(w)
      BY <3>1 DEF WriteManifest, Unfence, postgres
    <3>2. CASE Ready(w)
      BY <3>2, Owned DEF SoleInv, Owning, Ready, At
    <3> QED
      BY <3>1, <3>2
  <2>2. OwnOf(w)'
    <3>1. CASE WriteManifest(w)
      <4>1. control' = control /\ worker[w].step \in Owning
        BY <3>1 DEF WriteManifest, At, postgres, Owning
      <4> QED
        BY <1>1, <1>3, <1>4, <4>1, Owned DEF SoleInv, OwnOf, Owning
    <3>2. CASE Ready(w)
      <4>1. worker'[w].step = "unfence"
        BY <3>2, Went DEF Ready, Phases
      <4> QED
        BY <4>1 DEF OwnOf, Owning
    <3>3. CASE Unfence(w)
      BY <1>3, <1>4, <3>3 DEF OwnOf, Owning
    <3> QED
      BY <3>1, <3>2, <3>3
  <2> QED
    BY <1>1, <2>1, <2>2, QuietOwns DEF SoleInv
<1>6. BrokenInv'
  <2>1. worker'[w].step \in {"idle", "ready", "unfence"}
    BY <1>1, <1>3, <1>4
  <2>2. FullOf(w)'
    BY <2>1 DEF FullOf
  <2>3. ASSUME NEW p \in Products, Broken(p)
        PROVE  Rebuilds(w, p)' /\ control' = control /\ control.state # "READY"
    BY <1>2, <1>3, <1>4, <2>3 DEF Rebuilds, Rebuilding
  <2> QED
    BY <1>1, <2>1, <2>2, <2>3, WorkerBreaks DEF SoleInv
<1> QED
  BY <1>5, <1>6

\* What has converged is whole, or has lost a structure.
LEMMA ReconcileExtends ==
  ASSUME TypeInv, NEW w \in Workers, SoleInv(w), Reconcile(w)
  PROVE  OwnInv' /\ BrokenInv'
<1>1. /\ worker[w].step = "reconcile"
      /\ UNCHANGED <<auth, locks, rows, log, lastEpoch, lost, needless, trial>>
  BY DEF Reconcile, At, postgres, redis, history, GiveUp
<1>2. control.state = "RECOVERING" /\ control.owner # Gone /\ control.epoch = worker[w].epoch
  BY <1>1, Owned DEF SoleInv, Owning
<1>3. Resting.step = "idle"
  BY DEF Resting
<1>4. \/ /\ OthersStay(w) /\ worker'[w].step = "renew" /\ worker'[w].product = worker[w].product
         /\ worker'[w].todo = worker[w].todo /\ worker'[w].epoch = worker[w].epoch /\ control' = control
      \/ /\ OthersStay(w) /\ worker'[w] = Resting
         /\ control'.epoch = control.epoch /\ control'.state # "READY"
  <2>1. CASE Goto(w, "renew") /\ UNCHANGED postgres
    BY <2>1, Went DEF Phases, postgres
  <2>2. CASE GiveUp(w, TRUE)
    <3>1. Becomes(w, Resting) /\ (control' = control \/ control' = Released("FAILED_RETRYING"))
      BY <2>2, GaveUp
    <3> QED
      BY <1>2, <3>1, ReleasedIs DEF Becomes, OthersStay
  <2> QED
    BY <2>1, <2>2 DEF Reconcile
<1>5. OwnInv'
  <2>1. OwnOf(w)'
    BY <1>1, <1>3, <1>4, Owned DEF SoleInv, OwnOf, Owning
  <2> QED
    BY <1>1, <1>2, <1>4, <2>1, QuietOwns DEF SoleInv
<1>6. BrokenInv'
  <2>1. FullOf(w)'
    BY <1>3, <1>4 DEF FullOf
  <2>2. ASSUME NEW p \in Products, Broken(p)
        PROVE  Rebuilds(w, p)'
    BY <1>1, <1>3, <1>4, <2>2 DEF SoleInv, BrokenInv, BrokenOf, Rebuilds, Rebuilding
  <2> QED
    BY <1>1, <1>2, <1>3, <1>4, <2>1, <2>2, WorkerBreaks DEF SoleInv
<1> QED
  BY <1>5, <1>6

\* A rebuild that stops after its deletion is counted as a loss.
LEMMA FailureExtends ==
  ASSUME TypeInv, NEW w \in Workers, SoleInv(w), Error(w) \/ Crash(w)
  PROVE  OwnInv' /\ BrokenInv'
<1>1. /\ OthersStay(w) /\ worker'[w] = Resting
      /\ UNCHANGED <<auth, rows, log, lastEpoch, needless, trial>>
      /\ lost' = lost \cup {p \in worker[w].product : worker[w].step = "install"}
  BY Stopped DEF Error, Crash, HalfRebuilt, At, GiveUp
<1>2. Resting.step = "idle"
  BY DEF Resting
<1>3. \A v \in Workers \ {w} : worker[v].step = "idle" /\ worker'[v].step = "idle"
  BY <1>1, <1>2, SoleStays DEF SoleInv
<1>4. control'.epoch = control.epoch /\ (control.state # "READY" => control'.state # "READY")
  <2>1. CASE Crash(w)
    BY <2>1, ControlIs DEF Crash, ControlRow
  <2>2. CASE Error(w)
    <3>1. control' = control \/ control' = Released("FAILED_RETRYING")
      BY <2>2 DEF Error, GiveUp
    <3> QED
      BY <3>1, ReleasedIs
  <2> QED
    BY <2>1, <2>2
<1>5. ASSUME NEW p \in Products
      PROVE  LockOf(p)'
  <2>1. LockOf(p) /\ w # Gone /\ w # Nobody /\ Gone # Nobody
    BY NamesAre DEF SoleInv, OwnInv
  <2>2. locks[p] \in {Nobody, Gone, w} /\ (locks[p] = w => worker[w].step \in Owning)
    BY <1>3, <2>1 DEF LockOf, Owning
  <2>3. CASE Error(w)
    <3>1. locks'[p] = IF locks[p] = w THEN Nobody ELSE locks[p]
      BY <2>3 DEF Error
    <3>2. locks[p] = Gone => control' = control
      <4>1. locks[p] = Gone => control.owner # w
        BY <2>1 DEF LockOf
      <4> QED
        BY <2>3, <4>1 DEF Error, GiveUp
    <3> QED
      BY <2>1, <2>2, <3>1, <3>2 DEF LockOf
  <2>4. CASE Crash(w)
    <3>1. /\ locks'[p] = IF locks[p] = w THEN Gone ELSE locks[p]
          /\ control'.owner = (IF control.owner = w THEN Gone ELSE control.owner) /\ control'.leased = control.leased
      BY <2>4, ControlIs DEF Crash, ControlRow
    <3>2. locks[p] = w => control.owner = w /\ control.leased
      BY <2>2, Owned DEF SoleInv
    <3> QED
      BY <2>1, <2>2, <3>1, <3>2 DEF LockOf
  <2> QED
    BY <2>3, <2>4
<1>6. OwnInv'
  <2>1. OwnOf(w)'
    BY <1>1, <1>2 DEF OwnOf, Owning
  <2> QED
    BY <1>1, <1>5, <2>1, WorkerOwns DEF SoleInv
<1>7. BrokenInv'
  <2>1. FullOf(w)' /\ \A p \in Products : Rebuilds(w, p)'
    BY <1>1, <1>2 DEF FullOf, Rebuilds, Rebuilding
  <2>2. (\E p \in Products : Broken(p)) => control.state # "READY"
    BY DEF SoleInv, BrokenInv, BrokenOf
  <2> QED
    BY <1>1, <1>2, <1>4, <2>1, <2>2, WorkerBreaks DEF SoleInv
<1> QED
  BY <1>6, <1>7

LEMMA EnvironmentExtends ==
  ASSUME TypeInv, EndInv, NEW w \in Workers, SoleInv(w), "stall" \notin trial.faults, [Next]_vars,
         \/ UNCHANGED vars \/ Outside \/ LoseAll
         \/ \E p \in Products : \/ \E k \in {"BID", "CLOSE"} : Mutate(p, k)
                                \/ ReadBootstrap(p) \/ Bootstrap(p) \/ LoseState(p) \/ LoseStructure(p)
         \/ \E v \in Workers, p \in Products : Project(v, p)
  PROVE  OwnInv' /\ BrokenInv'
<1>0. /\ activeProductIds' \subseteq activeProductIds /\ trial' = trial
      /\ creating = {} /\ \A p \in Products : seeds[p] = NoState
  BY ActiveShrinks, TrialStays DEF SoleInv, Sole, TypeInv, CountsInv
<1>1. worker' = worker /\ lastEpoch' = lastEpoch /\ needless' = needless
  <2>1. CASE UNCHANGED vars
    BY <2>1 DEF vars, postgres, history
  <2>2. CASE Outside
    BY <2>2 DEF Outside, LeaseEnds, Stall, Begin, CreateRow, LockEnds, Fetch, postgres, history
  <2>3. CASE LoseAll
    BY <2>3 DEF LoseAll, postgres
  <2>4. ASSUME NEW p \in Products,
               (\E k \in {"BID", "CLOSE"} : Mutate(p, k)) \/ ReadBootstrap(p) \/ Bootstrap(p)
               \/ LoseState(p) \/ LoseStructure(p) \/ \E v \in Workers : Project(v, p)
        PROVE  worker' = worker /\ lastEpoch' = lastEpoch /\ needless' = needless
    BY <2>4 DEF Mutate, ReadBootstrap, Bootstrap, LoseState, LoseStructure, Project, postgres, history
  <2> QED
    BY <2>1, <2>2, <2>3, <2>4
<1>2. \/ control' = control
      \/ /\ control.owner = Gone /\ \A p \in Products : locks[p] # Gone
         /\ control'.epoch = control.epoch /\ control'.state = control.state
  <2>1. CASE LeaseEnds
    BY <2>1, ControlIs DEF LeaseEnds, ControlRow
  <2>2. CASE Outside /\ ~LeaseEnds
    BY <2>2 DEF Outside, Stall, Fault, Begin, CreateRow, LockEnds, Fetch, postgres
  <2>3. CASE UNCHANGED vars \/ LoseAll
    BY <2>3 DEF vars, LoseAll, postgres
  <2>4. ASSUME NEW p \in Products,
               (\E k \in {"BID", "CLOSE"} : Mutate(p, k)) \/ ReadBootstrap(p) \/ Bootstrap(p)
               \/ LoseState(p) \/ LoseStructure(p) \/ \E v \in Workers : Project(v, p)
        PROVE  control' = control
    BY <2>4 DEF Mutate, ReadBootstrap, Bootstrap, LoseState, LoseStructure, Project, postgres
  <2> QED
    BY <2>1, <2>2, <2>3, <2>4
<1>3. \A p \in Products : locks'[p] \in {locks[p], Nobody}
  <2>1. ASSUME NEW q \in Products, LockEnds(q)
        PROVE  \A p \in Products : locks'[p] \in {locks[p], Nobody}
    BY <2>1 DEF LockEnds, TypeInv, RedisInv
  <2>2. CASE LoseAll
    BY <2>2 DEF LoseAll
  <2>3. CASE Outside /\ ~\E q \in Products : LockEnds(q)
    BY <2>3 DEF Outside, LeaseEnds, Stall, Begin, CreateRow, Fetch, redis
  <2>4. ASSUME NEW p \in Products,
               (\E k \in {"BID", "CLOSE"} : Mutate(p, k)) \/ LoseState(p) \/ LoseStructure(p)
               \/ \E v \in Workers : Project(v, p)
        PROVE  locks' = locks
    BY <2>4 DEF Mutate, LoseState, LoseStructure, Project
  <2>5. \A p \in Products : ~ReadBootstrap(p) /\ ~Bootstrap(p)
    BY <1>0 DEF ReadBootstrap, Bootstrap
  <2>6. CASE UNCHANGED vars
    BY <2>6 DEF vars, redis
  <2> QED
    BY <2>1, <2>2, <2>3, <2>4, <2>5, <2>6
<1>4. OwnInv'
  <2>1. ASSUME NEW v \in Workers
        PROVE  OwnOf(v)'
    <3>1. OwnOf(v) /\ v # Gone
      BY NamesAre DEF SoleInv, OwnInv
    <3> QED
      BY <1>1, <1>2, <3>1 DEF OwnOf
  <2>2. ASSUME NEW p \in Products
        PROVE  LockOf(p)'
    <3>1. LockOf(p) /\ Gone # Nobody
      BY DEF SoleInv, OwnInv, Gone, Nobody
    <3> QED
      BY <1>1, <1>2, <1>3, <3>1 DEF LockOf
  <2> QED
    BY <2>1, <2>2 DEF OwnInv
<1>5. ASSUME NEW p \in Products
      PROVE  p \in lost' \/ (/\ p \notin lost /\ auth'[p].keys = auth[p].keys
                             /\ p \in auctionFence => p \in auctionFence')
  <2>1. CASE LoseAll
    BY <2>1 DEF LoseAll
  <2>2. CASE UNCHANGED vars \/ Outside
    BY <2>2 DEF vars, redis, history, Outside, LeaseEnds, Stall, Begin, CreateRow, LockEnds, Fetch
  <2>3. ASSUME NEW q \in Products, NEW k \in {"BID", "CLOSE"}, Mutate(q, k)
        PROVE  lost' = lost /\ auth'[p].keys = auth[p].keys /\ auctionFence' = auctionFence
    BY <2>3, MutateIs DEF Mutate, history
  <2>4. ASSUME NEW q \in Products, LoseState(q) \/ LoseStructure(q)
        PROVE  lost' = lost \cup {q} /\ auctionFence' = auctionFence /\ (p # q => auth'[p] = auth[p])
    BY <2>4 DEF LoseState, LoseStructure, TypeInv, RedisInv
  <2>5. ASSUME NEW v \in Workers, NEW q \in Products, Project(v, q)
        PROVE  lost' = lost /\ auctionFence' = auctionFence /\ auth' = auth
    BY <2>5 DEF Project, history
  <2>6. \A q \in Products : ~ReadBootstrap(q) /\ ~Bootstrap(q)
    BY <1>0 DEF ReadBootstrap, Bootstrap
  <2> QED
    BY <2>1, <2>2, <2>3, <2>4, <2>5, <2>6
<1>6. BrokenInv'
  BY <1>0, <1>1, <1>2, <1>5, EnvironmentBreaks DEF SoleInv
<1> QED
  BY <1>4, <1>6

LEMMA NextExtends ==
  ASSUME TypeInv, EndInv, AloneInv, LossInv, ExtendInv, [Next]_vars
  PROVE  ExtendInv'
<1> SUFFICES ASSUME Steady
             PROVE  OwnInv' /\ BrokenInv'
  BY TrialStays DEF ExtendInv, Steady, Alone
<1>1. PICK w \in Workers : trial.workers = {w}
  BY DEF Steady, Alone
<1>2. Unraced /\ OthersRest /\ DrainInv /\ Watched
  BY DEF Steady, Unraced, AloneInv, LossInv
<1>3. SoleInv(w) /\ "stall" \notin trial.faults
  BY <1>1, <1>2 DEF SoleInv, Sole, ExtendInv, Steady
<1>4. ASSUME NEW v \in Workers, Cycle(v) \/ Error(v) \/ Crash(v)
      PROVE  v = w
  BY <1>1, <1>2, <1>4, Runs
<1>5. ASSUME NEW v \in Workers, Passing(v)
      PROVE  OwnInv' /\ BrokenInv'
  <2>1. v = w
    BY <1>4, <1>5 DEF Passing, Cycle
  <2> QED
    BY <1>3, <1>5, <2>1, ObserveExtends, InspectExtends, ClaimExtends, FenceExtends, ExtendExtends, ListExtends,
       ReconcileExtends, EndExtends, FailureExtends DEF Passing
<1>6. ASSUME NEW v \in Workers, Delete(v) \/ Install(v) \/ \E p \in Products : ReadSeed(v, p)
      PROVE  OwnInv' /\ BrokenInv'
  <2>1. v = w
    BY <1>4, <1>6 DEF Cycle
  <2> QED
    BY <1>3, <1>6, <2>1, DeleteExtends, InstallExtends, ReadSeedExtends
<1> QED
  BY <1>3, <1>5, <1>6, EnvironmentExtends, NextIs

LEMMA InitExtends ==
  ASSUME Init
  PROVE  ExtendInv
<1> SUFFICES ASSUME Steady
             PROVE  OwnInv /\ BrokenInv
  BY DEF ExtendInv
<1>1. OwnInv
  BY DEF Init, OwnInv, OwnOf, Owning, LockOf, Resting, Gone, Nobody
<1>2. \A p \in Products : ~Broken(p)
  BY DEF Init, Broken, activeProductIds
<1> QED
  BY <1>1, <1>2 DEF Init, BrokenInv, BrokenOf, FullOf, Resting

\* With one worker that does not stall, and no auction created meanwhile, an auction
\* is extended at most once for each time it lost its state, unless a fence left
\* behind made it count as lost: an auction that is incomplete for a loss it was
\* already extended for has the epoch of the recovery that is still unfinished, and
\* that recovery, resumed under the same epoch, does not extend it again
\* (last_authority_recovery_epoch, claimRecovery).
THEOREM ExtensionsAreOncePerLoss == Spec => []ExtendedOncePerLoss
<1>1. Init => TypeInv /\ EndInv /\ AloneInv /\ LossInv /\ ExtendInv
  BY InitTypes, InitEnds, InitAlone, InitOwes, InitExtends
<1>2. TypeInv /\ EndInv /\ AloneInv /\ LossInv /\ ExtendInv /\ [Next]_vars
        => (TypeInv /\ EndInv /\ AloneInv /\ LossInv /\ ExtendInv)'
  <2>1. TypeInv /\ [Next]_vars => TypeInv'
    BY NextTypes, StayTypes
  <2> QED
    BY <2>1, NextEnds, NextAlone, NextOwes, NextExtends
<1>3. ExtendInv => ExtendedOncePerLoss
  BY DEF ExtendInv, Steady, BrokenInv, ExtendedOncePerLoss
<1> QED
  BY <1>1, <1>2, <1>3, PTL DEF Spec
=============================================================================
