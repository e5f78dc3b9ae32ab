------------------------- MODULE AuctionAuthority -------------------------
(***************************************************************************)
(* The Redis bidding authority of one auction.                             *)
(*                                                                         *)
(* Every mutation of an auction is one run of auction-mutate.lua, which    *)
(* Redis executes atomically: one action here is one accepted run of the   *)
(* script, from its guards to the stored idempotent answer.  A run that    *)
(* answers with `fail` (fenced, not loaded, exhausted, rate limited, key   *)
(* reused) or with a replay writes nothing, so it is a stuttering step; a  *)
(* run that answers with `reject` stores its refusal (action Reject).      *)
(*                                                                         *)
(* The variables are the Redis keys of the auction (redis-auction.keys.ts):*)
(* the fields of the state hash, the maxima hash, the ranking zset with    *)
(* its member hash, the ban set, the entry of the deadlines zset, the      *)
(* idempotency records, the rate counters and the results stream; and two  *)
(* things outside Redis: the wall clock, and the deadline the close        *)
(* scheduler has read and not yet acted upon.  The version field advances  *)
(* with the sequence field in every run and is not kept apart from it.     *)
(***************************************************************************)
EXTENDS Integers, Sequences

CONSTANTS
  Users,         \* account ids, positive: the ranking breaks ties by id
  Seller,        \* the account that sells
  Admins,        \* accounts whose actorRole is "admin"
  Amounts,       \* the money amounts a request may carry
  Keys,          \* idempotency keys of user requests
  StartPrice, Step,
  BuyNow,        \* the buy-now price, or Absent
  StartAt, EndAt,
  AutoExtend, Window, Extension,   \* anti-sniping
  RateLimit,
  MaxMoney,      \* maxBigint, as the largest representable price
  MaxSequence,   \* maxBigint, as the largest sequence
  \* Bounds of the model, not of the code:
  MaxUserEvents, \* accepted user mutations
  MaxLag,        \* how stale the nowMs of a request may be when it runs
  MaxTime        \* where the clock stops

Absent == -1     \* a missing hash field, score or price
NoUser == 0      \* the empty leaderId
System == 0      \* the actorId of the close scheduler

ASSUME PartiesAssumption ==
  /\ Users \subseteq Nat \ {0}
  /\ Seller \in Users
  /\ Admins \subseteq Users
ASSUME MoneyAssumption ==   \* what parseMoneyVnd lets through
  /\ MaxMoney \in Nat
  /\ Amounts \subseteq 1..MaxMoney
  /\ StartPrice \in 1..MaxMoney
  /\ Step \in 1..MaxMoney
  /\ BuyNow \in 1..MaxMoney \cup {Absent}
ASSUME TimeAssumption ==
  /\ StartAt \in Nat /\ EndAt \in Nat /\ StartAt < EndAt
  /\ AutoExtend \in BOOLEAN /\ Window \in Nat /\ Extension \in Nat
  /\ MaxLag \in Nat /\ MaxTime \in Nat
ASSUME LimitAssumption ==
  RateLimit \in Nat /\ MaxSequence \in Nat /\ MaxUserEvents \in Nat

VARIABLES
  status, currentPrice, leaderId, leaderMax, endAt, sequence,  \* state hash
  maxima, rankMembers, ranking,   \* standing proxy maxima and their order
  bans,
  deadline,                       \* score in the deadlines zset, or Absent
  answers,                        \* idempotency records
  rate,                           \* accepted mutations in the rate window
  stream,                         \* every event ever appended, oldest first
  clock,
  scan                            \* what the close scheduler has read

hash == <<status, currentPrice, leaderId, leaderMax, endAt, sequence>>
standing == <<maxima, rankMembers, ranking>>
book == <<hash, standing, bans, deadline, stream>>
outside == <<clock, scan>>
vars == <<hash, standing, bans, deadline, answers, rate, stream, outside>>

-----------------------------------------------------------------------------
(* Requests, answers and events. *)

Money == 1..MaxMoney
MaybeMoney == Money \cup {Absent}
Statuses == {"PENDING", "ACTIVE", "SOLD", "ENDED", "CANCELLED"}
Terminal == {"SOLD", "ENDED", "CANCELLED"}
Operations == {"BID", "BUY_NOW", "BAN", "CLOSE", "CANCEL"}

\* Fault: one close key for the whole life of an auction.
CloseKeyOfAuction(d) == <<"close", 0>>
\* The key of a scheduled close names the deadline that was due.
CloseKey(d) == <<"close", d>>
RequestKeys == Keys \cup ({"close"} \X Nat)

Request == [op : Operations, actor : Users \cup {System}, amount : MaybeMoney,
            target : Users \cup {NoUser}, key : RequestKeys]

BidRequest(u, m, k)    == [op |-> "BID", actor |-> u, amount |-> m, target |-> NoUser, key |-> k]
BuyNowRequest(u, m, k) == [op |-> "BUY_NOW", actor |-> u, amount |-> m, target |-> NoUser, key |-> k]
BanRequest(u, t, k)    == [op |-> "BAN", actor |-> u, amount |-> Absent, target |-> t, key |-> k]
CancelRequest(u, k)    == [op |-> "CANCEL", actor |-> u, amount |-> Absent, target |-> NoUser, key |-> k]
CloseRequest(d)        == [op |-> "CLOSE", actor |-> System, amount |-> Absent, target |-> NoUser,
                           key |-> CloseKey(d)]

UserRequests ==
  UNION { {BidRequest(u, m, k) : u \in Users, m \in Amounts, k \in Keys},
          {BuyNowRequest(u, m, k) : u \in Users, m \in Amounts, k \in Keys},
          {BanRequest(u, t, k) : u \in Users, t \in Users, k \in Keys},
          {CancelRequest(u, k) : u \in Users, k \in Keys} }

\* The fingerprint of a stored answer is the request itself; its result is
\* the sequence the mutation got, or 0 for a refusal.
Answer == [req : Request, result : Nat]

\* Fault: a key is looked up together with the fingerprint.
UnansweredByFingerprint(r) == \A a \in answers : a.req # r
Unanswered(r) == \A a \in answers : a.req.key # r.key

Event == [op : Operations, key : RequestKeys, actor : Users \cup {System}, amount : MaybeMoney,
          target : Users \cup {NoUser}, price : Money, leader : Users \cup {NoUser},
          endAt : Nat, status : Statuses, order : BOOLEAN]

-----------------------------------------------------------------------------
(* Decisions of the script. *)

\* Fault: any auction inside its window is active.
EffectiveByWindow(at) ==
  IF StartAt <= at /\ at < endAt THEN "ACTIVE" ELSE status
\* Why a PENDING auction can trade without anything having promoted it.
EffectiveStatus(at) ==
  IF status = "PENDING" /\ StartAt <= at /\ at < endAt THEN "ACTIVE" ELSE status

MayTrade(u, at) ==
  /\ EffectiveStatus(at) = "ACTIVE" /\ StartAt <= at /\ at < endAt
  /\ u # Seller
  /\ u \notin bans

Authorised(u) == u = Seller \/ u \in Admins

CanBid(r, at) ==
  /\ MayTrade(r.actor, at)
  /\ currentPrice + Step <= MaxMoney
  /\ r.amount >= currentPrice + Step
  /\ r.amount > maxima[r.actor]

\* Fault: the amount offered for a buy-now is not looked at.
CanBuyNowAtAnyAmount(r, at) ==
  /\ MayTrade(r.actor, at)
  /\ BuyNow # Absent
CanBuyNow(r, at) ==
  /\ MayTrade(r.actor, at)
  /\ BuyNow # Absent
  /\ r.amount >= BuyNow

CanBan(r, at) ==
  /\ EffectiveStatus(at) = "ACTIVE"
  /\ Authorised(r.actor)
  /\ r.target # Seller
  /\ r.target \notin bans

\* Fault: the deadline the scheduler read is trusted.
CanCloseWhenScanned(at) == EffectiveStatus(at) = "ACTIVE"
CanClose(at) ==
  /\ EffectiveStatus(at) = "ACTIVE"
  /\ at >= endAt

CanCancel(r, at) ==
  /\ EffectiveStatus(at) \in {"PENDING", "ACTIVE"}
  /\ Authorised(r.actor)

Permitted(r, at) ==
  \/ r.op = "BID"     /\ CanBid(r, at)
  \/ r.op = "BUY_NOW" /\ CanBuyNow(r, at)
  \/ r.op = "BAN"     /\ CanBan(r, at)
  \/ r.op = "CLOSE"   /\ CanClose(at)
  \/ r.op = "CANCEL"  /\ CanCancel(r, at)

Smaller(a, b) == IF a <= b THEN a ELSE b

\* Fault: the counter-bid of the proxy is not capped by the leader's maximum.
ProxyOutcomeUncapped(u, m) ==
  IF leaderId \in {NoUser, u} THEN [leader |-> u, max |-> m, price |-> currentPrice]
  ELSE IF m <= leaderMax
       THEN [leader |-> leaderId, max |-> leaderMax, price |-> m + Step]
       ELSE [leader |-> u, max |-> m, price |-> Smaller(leaderMax + Step, m)]
\* Fault: a new leader pays their whole maximum.
ProxyOutcomeFirstPrice(u, m) ==
  IF leaderId \in {NoUser, u} THEN [leader |-> u, max |-> m, price |-> currentPrice]
  ELSE IF m <= leaderMax
       THEN [leader |-> leaderId, max |-> leaderMax, price |-> Smaller(m + Step, leaderMax)]
       ELSE [leader |-> u, max |-> m, price |-> m]
\* Fault: a losing bid does not raise the price.
ProxyOutcomeNoStep(u, m) ==
  IF leaderId \in {NoUser, u} THEN [leader |-> u, max |-> m, price |-> currentPrice]
  ELSE IF m <= leaderMax
       THEN [leader |-> leaderId, max |-> leaderMax, price |-> currentPrice]
       ELSE [leader |-> u, max |-> m, price |-> Smaller(leaderMax + Step, m)]
\* Who leads, up to what maximum and at what price once u bids m.
ProxyOutcome(u, m) ==
  IF leaderId \in {NoUser, u} THEN [leader |-> u, max |-> m, price |-> currentPrice]
  ELSE IF m <= leaderMax
       THEN [leader |-> leaderId, max |-> leaderMax, price |-> Smaller(m + Step, leaderMax)]
       ELSE [leader |-> u, max |-> m, price |-> Smaller(leaderMax + Step, m)]

ExtendedEnd(at) ==
  IF AutoExtend /\ Window > 0 /\ Extension > 0 /\ endAt - at <= Window
  THEN endAt + Extension ELSE endAt

\* Fault: the bidder id comes first in the member.
OutranksById(x, y) == x[2] > y[2]
\* The order of the ranking zset: a member is the padded maximum, then the
\* padded bidder id, compared as strings.
Outranks(x, y) == x[1] > y[1] \/ (x[1] = y[1] /\ x[2] > y[2])
IsTop(x, S) == x \in S /\ \A y \in S \ {x} : Outranks(x, y)

\* Fault: the former member of a bidder stays in the ranking.
RerankedTwice(u, m) == ranking \cup {<<m, u>>}
\* ZREM of the former member, ZADD of the new one.
Reranked(u, m) == (ranking \ {<<rankMembers[u], u>>}) \cup {<<m, u>>}

-----------------------------------------------------------------------------
(* Steps shared by the accepted mutations. *)

Admitted(r) == Unanswered(r) /\ sequence < MaxSequence

\* XADD, the new sequence, and the idempotent answer.
Publish(r, newStatus, price, leader, end, order) ==
  /\ sequence' = sequence + 1
  /\ stream' = Append(stream,
       [op |-> r.op, key |-> r.key, actor |-> r.actor, amount |-> r.amount,
        target |-> r.target, price |-> price, leader |-> leader, endAt |-> end,
        status |-> newStatus, order |-> order])
  /\ answers' = answers \cup {[req |-> r, result |-> sequence + 1]}

\* HSET of the state hash and the entry of the deadlines zset.
Settle(newStatus, price, leader, max, end) ==
  /\ status' = newStatus
  /\ currentPrice' = price
  /\ leaderId' = leader
  /\ leaderMax' = max
  /\ endAt' = end
  /\ deadline' = IF newStatus = "ACTIVE" THEN end ELSE Absent

\* The rate counter of the actor is read after the guards, raised on success.
Throttle(u) ==
  /\ rate[u] < RateLimit
  /\ rate' = [rate EXCEPT ![u] = @ + 1]

-----------------------------------------------------------------------------
(* The mutations.  at is the nowMs the caller put in the request. *)

Bid(r, at) ==
  /\ r.op = "BID" /\ Admitted(r) /\ CanBid(r, at)
  /\ Throttle(r.actor)
  /\ LET o == ProxyOutcome(r.actor, r.amount)
         end == ExtendedEnd(at)
     IN  /\ Publish(r, "ACTIVE", o.price, o.leader, end, FALSE)
         /\ Settle("ACTIVE", o.price, o.leader, o.max, end)
  /\ maxima' = [maxima EXCEPT ![r.actor] = r.amount]
  /\ rankMembers' = [rankMembers EXCEPT ![r.actor] = r.amount]
  /\ ranking' = Reranked(r.actor, r.amount)
  /\ UNCHANGED <<bans, outside>>

BuyItNow(r, at) ==
  /\ r.op = "BUY_NOW" /\ Admitted(r) /\ CanBuyNow(r, at)
  /\ Throttle(r.actor)
  /\ Publish(r, "SOLD", BuyNow, r.actor, at, TRUE)
  /\ Settle("SOLD", BuyNow, r.actor, BuyNow, at)
  /\ UNCHANGED <<standing, bans, outside>>

\* The leader, price and maximum left by the removal of u, who led.
Dethrone(remaining) ==
  IF remaining = {}
  THEN Settle("ACTIVE", StartPrice, NoUser, Absent, endAt)
  ELSE \E top \in remaining :
         /\ IsTop(top, remaining)
         /\ IF remaining = {top}
            THEN Settle("ACTIVE", StartPrice, top[2], top[1], endAt)
            ELSE \E second \in remaining \ {top} :
                   /\ IsTop(second, remaining \ {top})
                   /\ Settle("ACTIVE", Smaller(second[1] + Step, top[1]), top[2], top[1], endAt)

\* The event is appended before the leader is replaced: it carries the leader
\* and price from before the ban.
Ban(r, at) ==
  /\ r.op = "BAN" /\ Admitted(r) /\ CanBan(r, at)
  /\ Publish(r, "ACTIVE", currentPrice, leaderId, endAt, FALSE)
  /\ bans' = bans \cup {r.target}
  /\ maxima' = [maxima EXCEPT ![r.target] = Absent]
  /\ rankMembers' = [rankMembers EXCEPT ![r.target] = Absent]
  /\ LET remaining == ranking \ {<<rankMembers[r.target], r.target>>}
     IN  /\ ranking' = remaining
         /\ IF leaderId = r.target
            THEN Dethrone(remaining)
            ELSE Settle("ACTIVE", currentPrice, leaderId, leaderMax, endAt)
  /\ UNCHANGED <<rate, outside>>

Cancel(r, at) ==
  /\ r.op = "CANCEL" /\ Admitted(r) /\ CanCancel(r, at)
  /\ Publish(r, "CANCELLED", currentPrice, leaderId, endAt, FALSE)
  /\ Settle("CANCELLED", currentPrice, leaderId, leaderMax, endAt)
  /\ UNCHANGED <<standing, bans, rate, outside>>

Close(r, at) ==
  /\ r.op = "CLOSE" /\ Admitted(r) /\ CanClose(at)
  /\ Publish(r, "ENDED", currentPrice, leaderId, endAt, leaderId # NoUser)
  /\ Settle("ENDED", currentPrice, leaderId, leaderMax, endAt)
  /\ UNCHANGED <<standing, bans, rate>>

\* Refusals are remembered under the idempotency key like successes.
Reject(r, at) ==
  /\ Admitted(r) /\ ~Permitted(r, at)
  /\ answers' = answers \cup {[req |-> r, result |-> 0]}
  /\ UNCHANGED <<hash, standing, bans, deadline, rate, stream>>

-----------------------------------------------------------------------------
(* The close scheduler (redis-auction-close.job.ts), one scan at a time. *)

NoScan == [deadline |-> Absent, at |-> Absent]

\* The times a caller may have read the clock at before its command runs: the
\* nowMs of a request is taken before it waits for a pooled connection, the now
\* of a scan before the deadlines are read.
RecentTimes == {t \in 0..clock : clock - t <= MaxLag}

ScanDue ==
  /\ scan = NoScan
  /\ deadline # Absent
  /\ \E at \in RecentTimes :
       /\ deadline <= at
       /\ scan' = [deadline |-> deadline, at |-> at]
  /\ UNCHANGED <<hash, standing, bans, deadline, answers, rate, stream, clock>>

\* Whatever the script answers, the job goes on to its next scan.
CloseDue ==
  /\ scan # NoScan
  /\ scan' = NoScan /\ UNCHANGED clock
  /\ LET r == CloseRequest(scan.deadline)
     IN  \/ Close(r, scan.at)
         \/ Reject(r, scan.at)
         \/ /\ ~Admitted(r)
            /\ UNCHANGED <<hash, standing, bans, deadline, answers, rate, stream>>

-----------------------------------------------------------------------------
(* Time and key expiry. *)

Tick ==
  /\ clock < MaxTime
  /\ clock' = clock + 1
  /\ UNCHANGED <<hash, standing, bans, deadline, answers, rate, stream, scan>>

\* The 24 hour TTL of an idempotency record runs out.
ExpireAnswer(a) ==
  /\ answers' = answers \ {a}
  /\ UNCHANGED <<hash, standing, bans, deadline, rate, stream, outside>>

\* The PEXPIRE of a rate counter runs out.
ExpireRate(u) ==
  /\ rate[u] > 0
  /\ rate' = [rate EXCEPT ![u] = 0]
  /\ UNCHANGED <<hash, standing, bans, deadline, answers, stream, outside>>

-----------------------------------------------------------------------------
\* What bootstrapRedisAuction installs for a product created at time 0.
Init ==
  /\ status = IF StartAt = 0 THEN "ACTIVE" ELSE "PENDING"
  /\ currentPrice = StartPrice
  /\ leaderId = NoUser
  /\ leaderMax = Absent
  /\ endAt = EndAt
  /\ sequence = 0
  /\ maxima = [u \in Users |-> Absent]
  /\ rankMembers = [u \in Users |-> Absent]
  /\ ranking = {}
  /\ bans = {}
  /\ deadline = IF StartAt = 0 THEN EndAt ELSE Absent
  /\ answers = {}
  /\ rate = [u \in Users |-> 0]
  /\ stream = <<>>
  /\ clock = 0
  /\ scan = NoScan

UserMutation(r, at) ==
  \/ Bid(r, at)
  \/ BuyItNow(r, at)
  \/ Ban(r, at)
  \/ Cancel(r, at)
  \/ Reject(r, at) /\ UNCHANGED outside

Next ==
  \/ /\ sequence < MaxUserEvents
     /\ \E r \in UserRequests, at \in RecentTimes : UserMutation(r, at)
  \/ ScanDue
  \/ CloseDue
  \/ Tick
  \/ \E a \in answers : ExpireAnswer(a)
  \/ \E u \in Users : ExpireRate(u)

Spec == Init /\ [][Next]_vars

-----------------------------------------------------------------------------
(* Properties. *)

Bidders == {u \in Users : maxima[u] # Absent}

\* The types of the Redis keys of one auction.
TypeOK ==
  /\ status \in Statuses
  /\ currentPrice \in Money
  /\ leaderId \in Users \cup {NoUser}
  /\ leaderMax \in MaybeMoney
  /\ endAt \in Nat
  /\ sequence \in Nat
  /\ maxima \in [Users -> MaybeMoney]
  /\ rankMembers \in [Users -> MaybeMoney]
  /\ ranking \subseteq (Money \X Users)
  /\ bans \subseteq Users
  /\ deadline \in Nat \cup {Absent}
  /\ answers \subseteq Answer
  /\ rate \in [Users -> Nat]
  /\ stream \in Seq(Event)
  /\ clock \in Nat
  /\ scan \in [deadline : Nat, at : Nat] \cup {NoScan}

\* Until it is sold at the buy-now price, an auction is led by a bidder whose
\* standing maximum no other bidder exceeds, who is neither the seller nor
\* banned; it has no leader exactly when nobody has a standing maximum.
\* (The proxy branches of BID and the re-election after a BAN.)
LeaderStands ==
  status # "SOLD" =>
    IF leaderId = NoUser
    THEN Bidders = {} /\ leaderMax = Absent
    ELSE /\ leaderId \in Bidders \ (bans \cup {Seller})
         /\ leaderMax = maxima[leaderId]
         /\ \A u \in Users : maxima[u] <= leaderMax

\* The price is one the leader agreed to and no other bidder could still
\* raise with a standing maximum; without a leader it is the start price.
PriceIsCovered ==
  status # "SOLD" =>
    /\ StartPrice <= currentPrice
    /\ IF leaderId = NoUser THEN currentPrice = StartPrice ELSE currentPrice <= leaderMax
    /\ \A u \in Users \ {leaderId} : maxima[u] <= currentPrice

\* The proxy bids no more than it has to: while nobody has been banned, the
\* price is the start price or at most one step above a losing maximum.
ProxyIsMinimal ==
  (status # "SOLD" /\ bans = {}) =>
    \/ currentPrice = StartPrice
    \/ \E u \in Bidders \ {leaderId} : currentPrice <= maxima[u] + Step

\* The three structures that hold the standing maxima agree, and hold nothing
\* of the seller or of a banned bidder: BAN elects the next leader from the
\* ranking alone.
RankingMirrorsMaxima ==
  /\ rankMembers = maxima
  /\ ranking = {<<maxima[u], u>> : u \in Bidders}
  /\ Bidders \cap (bans \cup {Seller}) = {}

\* An auction ends once: the event that ended it is the last one, at most that
\* event creates an order, and the order goes to an account that could trade,
\* at a price it asked for (BUY_NOW) or covered with its maximum (CLOSE).
EndsOnce ==
  \A i \in DOMAIN stream :
    LET e == stream[i] IN
    /\ e.status \in Terminal => i = Len(stream) /\ status = e.status
    /\ e.order => /\ e.status \in Terminal
                  /\ e.leader \in Users \ (bans \cup {Seller})
                  /\ e.price <= IF e.op = "BUY_NOW" THEN e.amount ELSE maxima[e.leader]

\* While the answer to a key is remembered the key changes the auction at most
\* once: a remembered success names the last event with that key, and no key
\* has two answers.
AnsweredOnce ==
  \A a \in answers :
    /\ \A b \in answers : a.req.key = b.req.key => a = b
    /\ a.result > 0 =>
         /\ a.result <= Len(stream) /\ stream[a.result].key = a.req.key
         /\ \A i \in a.result + 1 .. Len(stream) : stream[i].key # a.req.key

\* Nothing moves an auction that is over: no mutation, ban or event comes after
\* the end, whatever requests, retries and scheduled closes are still to run.
OverIsOver ==
  [][(status \in Terminal) => UNCHANGED book]_vars

\* The scheduler never ends an auction before the end time of the moment it
\* ends, also when a bid has extended it since the deadlines were read.
NeverClosedEarly ==
  [][status' = "ENDED" /\ status # "ENDED" => endAt' <= clock]_vars

-----------------------------------------------------------------------------
(* The contract the authority implements.  Bids that raise nothing but the *)
(* price, refusals, time and the scheduler are steps that it does not see. *)

ContractOutcome ==
  LET of(kind, buyer, price) == [kind |-> kind, buyer |-> buyer, price |-> price]
  IN  CASE status = "SOLD" -> of("bought", leaderId, currentPrice)
        [] status = "ENDED" /\ leaderId # NoUser -> of("won", leaderId, currentPrice)
        [] status = "ENDED" /\ leaderId = NoUser -> of("unsold", NoUser, Absent)
        [] status = "CANCELLED" -> of("withdrawn", NoUser, Absent)
        [] OTHER -> of("open", NoUser, Absent)

Contract == INSTANCE AuctionContract
  WITH offers <- maxima, excluded <- bans, outcome <- ContractOutcome

\* Every run of the script is a step of an auction that settles once, in
\* favour of the highest standing maximum, at a price between the second
\* highest and the winner's own.
ImplementsContract == Contract!Spec

-----------------------------------------------------------------------------
(* Progress.  The clock runs, and the close job runs every second. *)

Fairness == WF_vars(Tick) /\ WF_vars(ScanDue) /\ WF_vars(CloseDue)
FairSpec == Spec /\ Fairness

\* An auction with a scored deadline ends: the close job finds it, and a close
\* refused because a bid extended the auction is tried again under a new key.
\* An auction bootstrapped before its start has none until somebody trades.
ArmedAuctionEnds == deadline # Absent ~> status \in Terminal
=============================================================================
