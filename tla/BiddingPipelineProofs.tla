----------------------- MODULE BiddingPipelineProofs -----------------------
(***************************************************************************)
(* Theorems about the bidding authority, for every set of accounts, every  *)
(* price and every time: its state, then what it leaves behind, which is   *)
(* the stream of events, the remembered answers, the price of the proxy    *)
(* and the contract that the authority implements.  The last part is about *)
(* the authority and the projection of its stream together.                *)
(***************************************************************************)
EXTENDS BiddingPipeline, SequenceTheorems, FiniteSetTheorems, TLAPS

USE DEF Absent, NoUser, System

-----------------------------------------------------------------------------
(* Requests. *)

\* What the enumerated user requests are made of.
LEMMA UserRequestShape ==
  ASSUME NEW r \in UserRequests
  PROVE  /\ r \in Request
         /\ r.actor \in Users
         /\ r.op # "CLOSE"
         /\ r.op \in {"BID", "BUY_NOW"} => r.amount \in Amounts
         /\ r.op = "BAN" => r.target \in Users
<1>1. CASE r \in {BidRequest(u, m, k) : u \in Users, m \in Amounts, k \in Keys}
  BY <1>1, MoneyAssumption DEF BidRequest, Request, RequestKeys, Operations, MaybeMoney, Money
<1>2. CASE r \in {BuyNowRequest(u, m, k) : u \in Users, m \in Amounts, k \in Keys}
  BY <1>2, MoneyAssumption DEF BuyNowRequest, Request, RequestKeys, Operations, MaybeMoney, Money
<1>3. CASE r \in {BanRequest(u, t, k) : u \in Users, t \in Users, k \in Keys}
  BY <1>3 DEF BanRequest, Request, RequestKeys, Operations, MaybeMoney, Money
<1>4. CASE r \in {CancelRequest(u, k) : u \in Users, k \in Keys}
  BY <1>4 DEF CancelRequest, Request, RequestKeys, Operations, MaybeMoney, Money
<1> QED BY <1>1, <1>2, <1>3, <1>4 DEF UserRequests

\* The request of the close scheduler.
LEMMA CloseRequestShape ==
  ASSUME NEW d \in Nat
  PROVE  CloseRequest(d) \in Request /\ CloseRequest(d).op = "CLOSE"
BY DEF CloseRequest, Request, RequestKeys, CloseKey, Operations, MaybeMoney, Money

-----------------------------------------------------------------------------
(* Types. *)

LEMMA InitTypeOK == Init => TypeOK
BY PartiesAssumption, MoneyAssumption, TimeAssumption
   DEF Init, TypeOK, Statuses, Money, MaybeMoney, Event

\* Publish keeps the types of what it writes.
LEMMA PublishTypes ==
  ASSUME TypeOK, NEW r \in Request, NEW s \in Statuses, NEW p \in Money,
         NEW l \in Users \cup {NoUser}, NEW e \in Nat, NEW o \in BOOLEAN,
         Publish(r, s, p, l, e, o)
  PROVE  /\ sequence' \in Nat
         /\ answers' \subseteq Answer
         /\ stream' \in Seq(Event)
<1>1. [op |-> r.op, key |-> r.key, actor |-> r.actor, amount |-> r.amount,
       target |-> r.target, price |-> p, leader |-> l, endAt |-> e,
       status |-> s, order |-> o] \in Event
  BY DEF Request, Event
<1>2. [req |-> r, result |-> sequence + 1] \in Answer
  BY DEF Answer, TypeOK
<1> QED BY <1>1, <1>2 DEF Publish, TypeOK

\* Settle keeps the types of what it writes.
LEMMA SettleTypes ==
  ASSUME NEW s \in Statuses, NEW p \in Money, NEW l \in Users \cup {NoUser},
         NEW m \in MaybeMoney, NEW e \in Nat, Settle(s, p, l, m, e)
  PROVE  /\ status' \in Statuses /\ currentPrice' \in Money
         /\ leaderId' \in Users \cup {NoUser} /\ leaderMax' \in MaybeMoney
         /\ endAt' \in Nat /\ deadline' \in Nat \cup {Absent}
BY DEF Settle

\* The types that the standing maxima and the proxy decision rest on.
MoneyTypes ==
  /\ currentPrice \in Money
  /\ leaderId \in Users \cup {NoUser}
  /\ leaderMax \in MaybeMoney
  /\ maxima \in [Users -> MaybeMoney]
  /\ ranking \subseteq (Money \X Users)

\* The leader's maximum bounds the counter-bid of the proxy, so that the price
\* stays representable.
LEMMA ProxyOutcomeTypes ==
  ASSUME MoneyTypes, NEW u \in Users, NEW m \in Money,
         leaderId # NoUser => leaderMax \in Money
  PROVE  /\ ProxyOutcome(u, m).price \in Money
         /\ ProxyOutcome(u, m).leader \in Users
         /\ ProxyOutcome(u, m).max \in Money
BY MoneyAssumption DEF MoneyTypes, ProxyOutcome, Smaller, Money

-----------------------------------------------------------------------------
(* Leader, price and ranking. *)

\* Nobody can have bid the start price or less: the first bid is a step above.
AboveStart == \A u \in Bidders : maxima[u] > StartPrice

MoneyInv ==
  /\ LeaderStands
  /\ PriceIsCovered
  /\ RankingMirrorsMaxima
  /\ AboveStart

\* Only a trading auction accepts a bid, a buy-now or a ban; only one that is
\* not over is closed or cancelled.
LEMMA AcceptedStatus ==
  ASSUME NEW at, NEW r
  PROVE  /\ EffectiveStatus(at) = "ACTIVE" => status \in {"PENDING", "ACTIVE"}
         /\ CanBid(r, at) => status \in {"PENDING", "ACTIVE"}
         /\ CanBuyNow(r, at) => status \in {"PENDING", "ACTIVE"}
         /\ CanBan(r, at) => status \in {"PENDING", "ACTIVE"}
         /\ CanClose(at) => status \in {"PENDING", "ACTIVE"}
         /\ CanCancel(r, at) => status \in {"PENDING", "ACTIVE"}
BY DEF EffectiveStatus, CanBid, CanBuyNow, CanBan, CanClose, CanCancel, MayTrade

\* l leads with maximum mx at price p, among the maxima f.
Covers(f, l, mx, p) ==
  /\ l \in Users /\ f[l] = mx /\ mx # Absent
  /\ \A v \in Users : f[v] <= mx
  /\ StartPrice <= p /\ p <= mx
  /\ \A v \in Users \ {l} : f[v] <= p

\* Nobody leads.
Untouched(f, mx, p) ==
  /\ mx = Absent /\ p = StartPrice
  /\ \A v \in Users : f[v] = Absent

\* The two invariants about leader and price, unfolded ...
LEMMA LeadBefore ==
  ASSUME LeaderStands, PriceIsCovered, status # "SOLD"
  PROVE  IF leaderId = NoUser
         THEN Untouched(maxima, leaderMax, currentPrice)
         ELSE /\ Covers(maxima, leaderId, leaderMax, currentPrice)
              /\ leaderId \notin bans /\ leaderId # Seller
BY DEF LeaderStands, PriceIsCovered, Bidders, Covers, Untouched

\* ... and folded again.
LEMMA LeadAfter ==
  ASSUME TypeOK',
         IF leaderId' = NoUser
         THEN Untouched(maxima', leaderMax', currentPrice')
         ELSE /\ Covers(maxima', leaderId', leaderMax', currentPrice')
              /\ leaderId' \notin bans' /\ leaderId' # Seller
  PROVE  LeaderStands' /\ PriceIsCovered'
BY MoneyAssumption DEF LeaderStands, PriceIsCovered, Bidders, Covers, Untouched, Money, TypeOK

\* The proxy decision preserves the lead, whoever bids.
LEMMA ProxyOutcomeCovers ==
  ASSUME MoneyTypes, NEW u \in Users, NEW m \in Money, NEW g,
         m >= currentPrice + Step, m > maxima[u],
         g = [maxima EXCEPT ![u] = m],
         IF leaderId = NoUser
         THEN Untouched(maxima, leaderMax, currentPrice)
         ELSE Covers(maxima, leaderId, leaderMax, currentPrice)
  PROVE  LET o == ProxyOutcome(u, m) IN Covers(g, o.leader, o.max, o.price)
<1>1. g[u] = m /\ \A v \in Users \ {u} : g[v] = maxima[v]
  BY DEF MoneyTypes
<1>2. /\ \A v \in Users : maxima[v] \in Int
      /\ m \in Int /\ m # Absent /\ currentPrice \in Int /\ leaderMax \in Int
      /\ StartPrice \in Int /\ Step \in Int /\ Step > 0
  BY MoneyAssumption DEF MoneyTypes, Money, MaybeMoney
<1>3. CASE leaderId = NoUser
  BY <1>1, <1>2, <1>3, MoneyAssumption DEF ProxyOutcome, Covers, Untouched, Money
<1>4. CASE leaderId = u /\ leaderId # NoUser
  BY <1>1, <1>2, <1>4 DEF ProxyOutcome, Covers
<1>5. CASE leaderId \notin {NoUser, u} /\ m <= leaderMax
  <2>1. ProxyOutcome(u, m) = [leader |-> leaderId, max |-> leaderMax,
                              price |-> Smaller(m + Step, leaderMax)]
    BY <1>5 DEF ProxyOutcome
  <2> QED BY <2>1, <1>1, <1>2, <1>5 DEF Covers, Smaller
<1>6. CASE leaderId \notin {NoUser, u} /\ ~(m <= leaderMax)
  <2>1. ProxyOutcome(u, m) = [leader |-> u, max |-> m, price |-> Smaller(leaderMax + Step, m)]
    BY <1>6 DEF ProxyOutcome
  <2> QED BY <2>1, <1>1, <1>2, <1>6 DEF Covers, Smaller
<1> QED BY <1>3, <1>4, <1>5, <1>6

\* A bid leaves a leader with the highest maximum, at a price between the
\* second highest and the leader's own.
LEMMA BidMoney ==
  ASSUME TypeOK, MoneyInv, NEW r \in UserRequests, NEW at \in Nat, Bid(r, at)
  PROVE  TypeOK' /\ MoneyInv'
<1> DEFINE u == r.actor
           m == r.amount
           o == ProxyOutcome(u, m)
<1>1. u \in Users /\ m \in Money /\ r \in Request
  BY UserRequestShape, MoneyAssumption DEF Bid, Money
<1>2. status \in {"PENDING", "ACTIVE"} /\ status' = "ACTIVE"
  BY AcceptedStatus DEF Bid, Settle
<1>3. /\ u \notin bans /\ u # Seller
      /\ m >= currentPrice + Step /\ m > maxima[u]
  BY DEF Bid, CanBid, MayTrade
<1>4. /\ maxima' = [maxima EXCEPT ![u] = m]
      /\ rankMembers' = [rankMembers EXCEPT ![u] = m]
      /\ ranking' = (ranking \ {<<rankMembers[u], u>>}) \cup {<<m, u>>}
      /\ bans' = bans
  BY DEF Bid, Reranked
<1>5. currentPrice' = o.price /\ leaderId' = o.leader /\ leaderMax' = o.max
  BY DEF Bid, Settle
<1>6. MoneyTypes /\ (leaderId # NoUser => leaderMax \in Money)
  BY <1>2 DEF TypeOK, MoneyTypes, MoneyInv, LeaderStands, Bidders, MaybeMoney
<1>7. o.price \in Money /\ o.leader \in Users /\ o.max \in Money
  BY <1>1, <1>6, ProxyOutcomeTypes
<1>8. TypeOK'
  <2>1. ExtendedEnd(at) \in Nat
    BY TimeAssumption DEF ExtendedEnd, TypeOK
  <2>2. /\ sequence' \in Nat /\ answers' \subseteq Answer /\ stream' \in Seq(Event)
    BY <1>1, <1>7, <2>1, PublishTypes DEF Bid, Statuses
  <2>3. /\ status' \in Statuses /\ endAt' \in Nat /\ deadline' \in Nat \cup {Absent}
    BY <2>1 DEF Bid, Settle, Statuses
  <2>4. rate' \in [Users -> Nat]
    BY <1>1 DEF Bid, Throttle, TypeOK
  <2>5. /\ maxima' \in [Users -> MaybeMoney] /\ rankMembers' \in [Users -> MaybeMoney]
        /\ ranking' \subseteq (Money \X Users)
    BY <1>1, <1>4 DEF TypeOK, MaybeMoney
  <2>6. bans' = bans /\ UNCHANGED outside
    BY DEF Bid
  <2> QED BY <1>5, <1>7, <2>2, <2>3, <2>4, <2>5, <2>6 DEF TypeOK, MaybeMoney, outside
<1>9. /\ maxima'[u] = m
      /\ \A v \in Users \ {u} : maxima'[v] = maxima[v]
  BY <1>1, <1>4 DEF TypeOK
<1>10. AboveStart'
  BY <1>1, <1>3, <1>9, <1>2, MoneyAssumption
     DEF AboveStart, MoneyInv, PriceIsCovered, Bidders, TypeOK, Money, MaybeMoney
<1>11. RankingMirrorsMaxima'
  <2>1. Bidders' = Bidders \cup {u}
    BY <1>1, <1>9 DEF Bidders, Money
  <2>2. rankMembers' = maxima'
    BY <1>4 DEF MoneyInv, RankingMirrorsMaxima
  <2>3. ranking = {<<maxima[v], v>> : v \in Bidders} /\ rankMembers[u] = maxima[u]
    BY DEF MoneyInv, RankingMirrorsMaxima
  <2>4. ranking' = {<<maxima'[v], v>> : v \in Bidders'}
    BY <1>1, <1>4, <1>9, <2>1, <2>3 DEF Bidders
  <2>5. Bidders' \cap (bans' \cup {Seller}) = {}
    BY <1>3, <1>4, <2>1 DEF MoneyInv, RankingMirrorsMaxima
  <2> QED BY <2>2, <2>4, <2>5 DEF RankingMirrorsMaxima
<1>12. LeaderStands' /\ PriceIsCovered'
  <2>1. Covers(maxima', leaderId', leaderMax', currentPrice')
    BY <1>1, <1>2, <1>3, <1>4, <1>5, <1>6, LeadBefore, ProxyOutcomeCovers DEF MoneyInv
  <2>2. leaderId' # NoUser /\ leaderId' \notin bans' /\ leaderId' # Seller
    BY <1>2, <1>3, <1>4, <1>5, <1>7, LeadBefore, PartiesAssumption DEF MoneyInv, ProxyOutcome
  <2> QED BY <1>8, <2>1, <2>2, LeadAfter
<1> QED BY <1>8, <1>10, <1>11, <1>12 DEF MoneyInv

\* A buy-now ends the auction and leaves the maxima alone.
LEMMA BuyItNowMoney ==
  ASSUME TypeOK, MoneyInv, NEW r \in UserRequests, NEW at \in Nat, BuyItNow(r, at)
  PROVE  TypeOK' /\ MoneyInv'
<1>1. r \in Request /\ r.actor \in Users /\ BuyNow \in Money
  BY UserRequestShape, MoneyAssumption DEF BuyItNow, CanBuyNow, Money
<1>2. /\ sequence' \in Nat /\ answers' \subseteq Answer /\ stream' \in Seq(Event)
  BY <1>1, PublishTypes DEF BuyItNow, Statuses
<1>3. rate' \in [Users -> Nat]
  BY <1>1 DEF BuyItNow, Throttle, TypeOK
<1>4. TypeOK'
  BY <1>1, <1>2, <1>3 DEF BuyItNow, Settle, TypeOK, standing, outside, Statuses, MaybeMoney
<1>5. LeaderStands' /\ PriceIsCovered'
  BY DEF BuyItNow, Settle, LeaderStands, PriceIsCovered
<1>6. RankingMirrorsMaxima' /\ AboveStart'
  BY DEF BuyItNow, standing, MoneyInv, RankingMirrorsMaxima, AboveStart, Bidders
<1> QED BY <1>4, <1>5, <1>6 DEF MoneyInv

\* Once the maxima of the banned bidder are gone, the top of the ranking leads
\* and the second of the ranking sets the price.
LEMMA DethroneCovers ==
  ASSUME NEW g \in [Users -> MaybeMoney], NEW B, NEW remaining,
         B = {v \in Users : g[v] # Absent},
         remaining = {<<g[v], v>> : v \in B},
         \A v \in B : g[v] > StartPrice,
         endAt \in Nat, Dethrone(remaining)
  PROVE  /\ status' = "ACTIVE" /\ endAt' = endAt /\ deadline' = endAt
         /\ \/ leaderId' = NoUser /\ Untouched(g, leaderMax', currentPrice')
            \/ leaderId' \in B /\ Covers(g, leaderId', leaderMax', currentPrice')
<1>a. \A v \in Users : g[v] \in Int /\ g[v] >= Absent
  <2> TAKE v \in Users
  <2>1. g[v] \in MaybeMoney
    OBVIOUS
  <2> QED BY <2>1 DEF MaybeMoney, Money
<1>b. \A v \in Users \ B : g[v] = Absent
  OBVIOUS
<1>c. \A v \in B : v \in Users /\ g[v] \in Money
  BY DEF MaybeMoney
<1>d. \A v \in B : <<g[v], v>> \in remaining
  OBVIOUS
<1>e. StartPrice \in Nat /\ Step \in Nat
  BY MoneyAssumption
<1>0. /\ \A v \in Users : g[v] \in Int /\ g[v] >= Absent /\ (v \notin B => g[v] = Absent)
      /\ \A v \in B : v \in Users /\ g[v] \in Int
  BY <1>a, <1>b, <1>c
<1>1. CASE remaining = {}
  <2>1. B = {}
    BY <1>0, <1>1
  <2> QED BY <1>1, <2>1 DEF Dethrone, Settle, Untouched
<1>2. CASE remaining # {}
  <2>1. PICK top \in remaining :
          /\ IsTop(top, remaining)
          /\ IF remaining = {top}
             THEN Settle("ACTIVE", StartPrice, top[2], top[1], endAt)
             ELSE \E second \in remaining \ {top} :
                    /\ IsTop(second, remaining \ {top})
                    /\ Settle("ACTIVE", Smaller(second[1] + Step, top[1]), top[2], top[1], endAt)
    BY <1>2 DEF Dethrone
  <2>2. PICK l \in B : top = <<g[l], l>>
    OBVIOUS
  <2>3. l \in Users /\ g[l] \in Money /\ g[l] > StartPrice
    BY <2>2 DEF MaybeMoney
  <2>x. g[l] \in Int /\ g[l] <= g[l]
    BY <2>3 DEF Money
  <2>4. \A v \in B : g[v] <= g[l]
    <3> SUFFICES ASSUME NEW v \in B PROVE v = l \/ g[v] <= g[l]
      BY <2>x
    <3>0. CASE v = l
      BY <3>0
    <3> SUFFICES ASSUME v # l PROVE g[v] <= g[l]
      BY <3>0
    <3>1. <<g[v], v>> \in remaining \ {top}
      BY <1>d, <2>2
    <3>2. Outranks(top, <<g[v], v>>)
      BY <3>1, <2>1 DEF IsTop
    <3>3. g[v] \in Int /\ g[l] \in Int
      BY DEF MaybeMoney, Money
    <3> QED BY <3>2, <3>3, <2>2 DEF Outranks
  <2>5. \A v \in Users : g[v] <= g[l]
    BY <1>0, <2>3, <2>4 DEF Money
  <2>6. CASE remaining = {top}
    <3>1. \A v \in B : <<g[v], v>> = <<g[l], l>>
      BY <1>d, <2>2, <2>6
    <3>2. \A v \in B : v = l
      BY <3>1
    <3>3. \A v \in Users \ {l} : g[v] <= StartPrice
      <4> TAKE v \in Users \ {l}
      <4>1. g[v] = Absent
        BY <1>b, <3>2
      <4> QED BY <4>1, <1>e
    <3>4. /\ currentPrice' = StartPrice /\ leaderId' = l /\ leaderMax' = g[l]
          /\ status' = "ACTIVE" /\ endAt' = endAt /\ deadline' = endAt
      BY <2>1, <2>2, <2>6 DEF Settle
    <3> QED BY <1>e, <2>3, <2>5, <3>3, <3>4 DEF Covers, Money
  <2>7. CASE remaining # {top}
    <3>1. PICK second \in remaining \ {top} :
            /\ IsTop(second, remaining \ {top})
            /\ Settle("ACTIVE", Smaller(second[1] + Step, top[1]), top[2], top[1], endAt)
      BY <2>1, <2>7
    <3>2. PICK w \in B : second = <<g[w], w>>
      OBVIOUS
    <3>3. w # l /\ g[w] \in Money /\ g[w] > StartPrice
      BY <2>2, <3>2 DEF MaybeMoney
    <3>x. g[w] \in Int /\ g[w] <= g[w]
      BY <3>3 DEF Money
    <3>4. \A v \in B \ {l} : g[v] <= g[w]
      <4> SUFFICES ASSUME NEW v \in B \ {l} PROVE v = w \/ g[v] <= g[w]
        BY <3>x
      <4>0. CASE v = w
        BY <4>0
      <4> SUFFICES ASSUME v # w PROVE g[v] <= g[w]
        BY <4>0
      <4>1. <<g[v], v>> \in (remaining \ {top}) \ {second}
        BY <1>d, <2>2, <3>2
      <4>2. Outranks(second, <<g[v], v>>)
        BY <4>1, <3>1 DEF IsTop
      <4>3. g[v] \in Int /\ g[w] \in Int
        BY DEF MaybeMoney, Money
      <4> QED BY <4>2, <4>3, <3>2 DEF Outranks
    <3> DEFINE p == Smaller(g[w] + Step, g[l])
    <3>5. /\ currentPrice' = p /\ leaderId' = l /\ leaderMax' = g[l]
          /\ status' = "ACTIVE" /\ endAt' = endAt /\ deadline' = endAt
      BY <2>2, <3>1, <3>2 DEF Settle
    <3>6. StartPrice <= p /\ p <= g[l] /\ g[w] <= p
      BY <2>3, <2>4, <3>3, MoneyAssumption DEF Smaller, Money
    <3>7. \A v \in Users \ {l} : g[v] <= p
      <4> SUFFICES ASSUME NEW v \in Users \ {l} PROVE g[v] <= p
        OBVIOUS
      <4>1. g[v] \in Int /\ g[w] \in Int /\ p \in Int
        BY <2>3, <3>3, MoneyAssumption DEF MaybeMoney, Money, Smaller
      <4>2. v \in B => g[v] <= g[w]
        BY <3>4
      <4>3. v \notin B => g[v] = Absent
        OBVIOUS
      <4> QED BY <4>1, <4>2, <4>3, <3>3, <3>6 DEF Money
    <3> QED BY <2>2, <2>3, <2>5, <3>5, <3>6, <3>7 DEF Covers, Money
  <2> QED BY <2>6, <2>7
<1> QED BY <1>1, <1>2

\* A ban removes a bidder and leaves the auction led by the best of the rest,
\* or by nobody.
LEMMA BanMoney ==
  ASSUME TypeOK, MoneyInv, NEW r \in UserRequests, NEW at \in Nat, Ban(r, at)
  PROVE  TypeOK' /\ MoneyInv'
<1> DEFINE t == r.target
<1>1. r \in Request /\ t \in Users /\ t # Seller /\ status \in {"PENDING", "ACTIVE"}
  BY UserRequestShape, AcceptedStatus DEF Ban, CanBan
<1>2. /\ bans' = bans \cup {t}
      /\ maxima' = [maxima EXCEPT ![t] = Absent]
      /\ rankMembers' = [rankMembers EXCEPT ![t] = Absent]
      /\ ranking' = ranking \ {<<rankMembers[t], t>>}
      /\ rate' = rate /\ UNCHANGED outside
  BY DEF Ban
<1>3. /\ maxima \in [Users -> MaybeMoney] /\ maxima' \in [Users -> MaybeMoney]
      /\ maxima'[t] = Absent
      /\ \A v \in Users \ {t} : maxima'[v] = maxima[v]
  BY <1>1, <1>2 DEF TypeOK, MaybeMoney
<1>4. Bidders' = Bidders \ {t}
  BY <1>3 DEF Bidders
<1>5. RankingMirrorsMaxima'
  <2>1. rankMembers = maxima /\ ranking = {<<maxima[u], u>> : u \in Bidders}
    BY DEF MoneyInv, RankingMirrorsMaxima
  <2>2. ranking' = {<<maxima'[u], u>> : u \in Bidders'}
    BY <1>1, <1>2, <1>3, <1>4, <2>1 DEF Bidders
  <2>3. rankMembers' = maxima'
    BY <1>2, <2>1
  <2>4. Bidders' \cap (bans' \cup {Seller}) = {}
    BY <1>2, <1>4 DEF MoneyInv, RankingMirrorsMaxima
  <2> QED BY <2>2, <2>3, <2>4 DEF RankingMirrorsMaxima
<1>6. AboveStart'
  BY <1>3, <1>4 DEF MoneyInv, AboveStart, Bidders
<1>7. /\ status' = "ACTIVE" /\ endAt' = endAt /\ deadline' = endAt
      /\ IF leaderId' = NoUser
         THEN Untouched(maxima', leaderMax', currentPrice')
         ELSE /\ Covers(maxima', leaderId', leaderMax', currentPrice')
              /\ leaderId' \notin bans' /\ leaderId' # Seller
  <2>1. CASE leaderId = t
    <3>1. Dethrone(ranking')
      BY <1>2, <2>1 DEF Ban
    <3>2. Bidders' = {v \in Users : maxima'[v] # Absent}
      BY DEF Bidders
    <3>3. /\ status' = "ACTIVE" /\ endAt' = endAt /\ deadline' = endAt
          /\ \/ leaderId' = NoUser /\ Untouched(maxima', leaderMax', currentPrice')
             \/ /\ leaderId' \in Bidders'
                /\ Covers(maxima', leaderId', leaderMax', currentPrice')
      BY <1>3, <1>5, <1>6, <3>1, <3>2, DethroneCovers
         DEF RankingMirrorsMaxima, AboveStart, TypeOK
    <3>4. leaderId' \in Bidders' => /\ leaderId' # NoUser
                                    /\ leaderId' \notin bans' /\ leaderId' # Seller
      BY <1>5, PartiesAssumption DEF RankingMirrorsMaxima, Bidders
    <3> QED BY <3>3, <3>4
  <2>2. CASE leaderId # t
    <3>1. /\ status' = "ACTIVE" /\ endAt' = endAt /\ deadline' = endAt
          /\ leaderId' = leaderId /\ leaderMax' = leaderMax /\ currentPrice' = currentPrice
      BY <2>2 DEF Ban, Settle
    <3>2. CASE leaderId = NoUser
      BY <1>1, <1>3, <3>1, <3>2, LeadBefore DEF MoneyInv, Untouched
    <3>3. CASE leaderId # NoUser
      <4>1. /\ Covers(maxima, leaderId, leaderMax, currentPrice)
            /\ leaderId \notin bans /\ leaderId # Seller
        BY <1>1, <3>3, LeadBefore DEF MoneyInv
      <4>2. leaderMax \in Int /\ currentPrice \in Int /\ Absent <= leaderMax /\ Absent <= currentPrice
        BY DEF TypeOK, Money, MaybeMoney
      <4>3. Covers(maxima', leaderId, leaderMax, currentPrice)
        BY <1>1, <1>3, <2>2, <4>1, <4>2 DEF Covers
      <4> QED BY <1>2, <2>2, <3>1, <3>3, <4>1, <4>3
    <3> QED BY <3>2, <3>3
  <2> QED BY <2>1, <2>2
<1>8. TypeOK'
  <2>1. leaderId' \in Users \cup {NoUser}
    BY <1>7 DEF Covers
  <2>2. leaderMax' \in MaybeMoney
    BY <1>3, <1>7 DEF Covers, Untouched, MaybeMoney
  <2>3. currentPrice' \in Money
    <3>1. CASE leaderId' = NoUser
      BY <1>7, <3>1, MoneyAssumption DEF Untouched, Money
    <3>2. CASE leaderId' # NoUser /\ leaderId = t
      <4>1. Dethrone(ranking')
        BY <1>2, <3>2 DEF Ban
      <4>2. currentPrice' \in Int
        <5>1. ranking' \subseteq (Money \X Users)
          BY <1>2 DEF TypeOK
        <5>2. \A x \in ranking' : x[1] \in Money
          BY <5>1
        <5>3. StartPrice \in Int /\ Step \in Int
          BY MoneyAssumption
        <5>4. CASE \E l, mx : Settle("ACTIVE", StartPrice, l, mx, endAt)
          BY <5>3, <5>4 DEF Settle
        <5>5. CASE \E x, y \in ranking' : \E l, mx :
                     Settle("ACTIVE", Smaller(x[1] + Step, y[1]), l, mx, endAt)
          <6>1. PICK x \in ranking', y \in ranking' : \E l, mx :
                       Settle("ACTIVE", Smaller(x[1] + Step, y[1]), l, mx, endAt)
            BY <5>5
          <6>2. x[1] \in Int /\ y[1] \in Int
            BY <5>2 DEF Money
          <6> QED BY <5>3, <6>1, <6>2 DEF Settle, Smaller
        <5> QED BY <4>1, <5>4, <5>5 DEF Dethrone
      <4> QED BY <1>7, <2>2, <3>2, <4>2, MoneyAssumption DEF Covers, Money, MaybeMoney
    <3>3. CASE leaderId # t
      BY <3>3 DEF Ban, Settle, TypeOK
    <3> QED BY <3>1, <3>2, <3>3
  <2>4. /\ sequence' \in Nat /\ answers' \subseteq Answer /\ stream' \in Seq(Event)
    BY <1>1, PublishTypes DEF Ban, Statuses, TypeOK
  <2>5. /\ rankMembers' \in [Users -> MaybeMoney] /\ ranking' \subseteq (Money \X Users)
    BY <1>1, <1>2 DEF TypeOK, MaybeMoney
  <2> QED BY <1>1, <1>2, <1>3, <1>7, <2>1, <2>2, <2>3, <2>4, <2>5 DEF TypeOK, Statuses, outside
<1>9. LeaderStands' /\ PriceIsCovered'
  BY <1>7, <1>8, LeadAfter
<1> QED BY <1>5, <1>6, <1>8, <1>9 DEF MoneyInv

-----------------------------------------------------------------------------
(* Every step. *)

\* The fields MoneyInv is about.
trade == <<hash, standing, bans>>

\* A step that leaves them alone preserves it.
LEMMA MoneyStutter ==
  ASSUME MoneyInv, UNCHANGED trade
  PROVE  MoneyInv'
BY DEF trade, hash, standing, MoneyInv, LeaderStands, PriceIsCovered, RankingMirrorsMaxima,
       AboveStart, Bidders

\* A cancelled auction keeps the leader it had.
LEMMA CancelMoney ==
  ASSUME TypeOK, MoneyInv, NEW r \in UserRequests, NEW at \in Nat, Cancel(r, at)
  PROVE  TypeOK' /\ MoneyInv'
<1>1. r \in Request /\ status # "SOLD"
  BY UserRequestShape, AcceptedStatus DEF Cancel
<1>2. /\ sequence' \in Nat /\ answers' \subseteq Answer /\ stream' \in Seq(Event)
  BY <1>1, PublishTypes DEF Cancel, Statuses, TypeOK
<1>3. TypeOK'
  BY <1>2 DEF Cancel, Settle, TypeOK, standing, outside, Statuses
<1>4. MoneyInv'
  BY <1>1 DEF Cancel, Settle, standing, MoneyInv, LeaderStands, PriceIsCovered,
              RankingMirrorsMaxima, AboveStart, Bidders
<1> QED BY <1>3, <1>4

\* So does a closed one.
LEMMA CloseMoney ==
  ASSUME TypeOK, MoneyInv, NEW r \in Request, NEW at \in Nat, Close(r, at),
         scan' \in [deadline : Nat, at : Nat] \cup {NoScan}, clock' \in Nat
  PROVE  TypeOK' /\ MoneyInv'
<1>1. status # "SOLD"
  BY AcceptedStatus DEF Close
<1>2. /\ sequence' \in Nat /\ answers' \subseteq Answer /\ stream' \in Seq(Event)
  BY PublishTypes DEF Close, Statuses, TypeOK
<1>3. TypeOK'
  BY <1>2 DEF Close, Settle, TypeOK, standing, Statuses
<1>4. MoneyInv'
  BY <1>1 DEF Close, Settle, standing, MoneyInv, LeaderStands, PriceIsCovered,
              RankingMirrorsMaxima, AboveStart, Bidders
<1> QED BY <1>3, <1>4

\* A refusal changes nothing but the answers.
LEMMA RejectMoney ==
  ASSUME TypeOK, MoneyInv, NEW r \in Request, NEW at \in Nat, Reject(r, at),
         scan' \in [deadline : Nat, at : Nat] \cup {NoScan}, clock' \in Nat
  PROVE  TypeOK' /\ MoneyInv'
<1>1. answers' \subseteq Answer
  BY DEF Reject, Answer, TypeOK
<1>2. TypeOK'
  BY <1>1 DEF Reject, TypeOK, hash, standing
<1>3. MoneyInv'
  BY MoneyStutter DEF Reject, trade
<1> QED BY <1>2, <1>3

\* A user's request, whatever the script makes of it.
LEMMA UserMutationMoney ==
  ASSUME TypeOK, MoneyInv, NEW r \in UserRequests, NEW at \in Nat, UserMutation(r, at)
  PROVE  TypeOK' /\ MoneyInv'
<1>1. CASE Reject(r, at) /\ UNCHANGED outside
  BY <1>1, UserRequestShape, RejectMoney DEF outside, TypeOK
<1> QED BY <1>1, BidMoney, BuyItNowMoney, BanMoney, CancelMoney DEF UserMutation

\* The request of the close scheduler, whatever the script makes of it.
LEMMA CloseDueMoney ==
  ASSUME TypeOK, MoneyInv, CloseDue
  PROVE  TypeOK' /\ MoneyInv'
<1> DEFINE r == CloseRequest(scan.deadline)
<1>1. scan.deadline \in Nat /\ scan.at \in Nat /\ r \in Request
  BY CloseRequestShape DEF CloseDue, TypeOK
<1>2. scan' = NoScan /\ clock' \in Nat
  BY DEF CloseDue, TypeOK
<1>3. CASE Close(r, scan.at)
  BY <1>1, <1>2, <1>3, CloseMoney
<1>4. CASE Reject(r, scan.at)
  BY <1>1, <1>2, <1>4, RejectMoney
<1>5. CASE UNCHANGED <<hash, standing, bans, deadline, answers, rate, stream>>
  <2>1. TypeOK'
    BY <1>2, <1>5 DEF TypeOK, hash, standing
  <2> QED BY <1>5, <2>1, MoneyStutter DEF trade
<1> QED BY <1>3, <1>4, <1>5 DEF CloseDue

\* The scheduler's scan, time and expiry.
LEMMA BackgroundMoney ==
  ASSUME TypeOK, MoneyInv,
         ScanDue \/ Tick \/ (\E a \in answers : ExpireAnswer(a)) \/ (\E u \in Users : ExpireRate(u))
  PROVE  TypeOK' /\ MoneyInv'
<1>1. UNCHANGED trade
  BY DEF ScanDue, Tick, ExpireAnswer, ExpireRate, trade
<1>2. TypeOK'
  <2>1. CASE ScanDue
    BY <2>1 DEF ScanDue, RecentTimes, TypeOK, hash, standing
  <2>2. CASE Tick
    BY <2>2 DEF Tick, TypeOK, hash, standing
  <2>3. CASE \E a \in answers : ExpireAnswer(a)
    BY <2>3 DEF ExpireAnswer, TypeOK, hash, standing, outside
  <2>4. CASE \E u \in Users : ExpireRate(u)
    BY <2>4 DEF ExpireRate, TypeOK, hash, standing, outside
  <2> QED BY <2>1, <2>2, <2>3, <2>4
<1> QED BY <1>1, <1>2, MoneyStutter

\* TypeOK /\ MoneyInv is inductive.
LEMMA NextMoney ==
  ASSUME TypeOK, MoneyInv, [Next]_vars
  PROVE  TypeOK' /\ MoneyInv'
<1>1. ASSUME NEW r \in UserRequests, NEW at \in RecentTimes, UserMutation(r, at)
      PROVE  TypeOK' /\ MoneyInv'
  BY <1>1, UserMutationMoney DEF RecentTimes
<1>2. CASE UNCHANGED vars
  <2>1. TypeOK'
    BY <1>2 DEF vars, hash, standing, outside, TypeOK
  <2> QED BY <1>2, <2>1, MoneyStutter DEF vars, trade
<1> QED BY <1>1, <1>2, CloseDueMoney, BackgroundMoney DEF Next

LEMMA InitMoney == Init => MoneyInv
BY MoneyAssumption
   DEF Init, MoneyInv, LeaderStands, PriceIsCovered, RankingMirrorsMaxima, AboveStart, Bidders

\* The invariant that the other theorems about money rest on.
THEOREM MoneyInvariant == Spec => [](TypeOK /\ MoneyInv)
<1>1. Init => TypeOK /\ MoneyInv
  BY InitTypeOK, InitMoney
<1>2. TypeOK /\ MoneyInv /\ [Next]_vars => (TypeOK /\ MoneyInv)'
  BY NextMoney
<1> QED BY <1>1, <1>2, PTL DEF Spec

\* Every run of the script keeps the Redis keys well formed; in particular no
\* price, not even a proxy's counter-bid, leaves the representable range.
THEOREM TypeCorrect == Spec => []TypeOK
BY MoneyInvariant, PTL

\* The leader stands: the proxy branches of BID and the re-election of BAN
\* always leave an eligible bidder with the highest standing maximum.
THEOREM LeaderAlwaysStands == Spec => []LeaderStands
<1>1. MoneyInv => LeaderStands
  BY DEF MoneyInv
<1> QED BY <1>1, MoneyInvariant, PTL

\* The price is always covered by the leader's maximum and by nobody else's.
THEOREM PriceAlwaysCovered == Spec => []PriceIsCovered
<1>1. MoneyInv => PriceIsCovered
  BY DEF MoneyInv
<1> QED BY <1>1, MoneyInvariant, PTL

\* The ranking BAN elects from always mirrors the standing maxima.
THEOREM RankingAlwaysMirrors == Spec => []RankingMirrorsMaxima
<1>1. MoneyInv => RankingMirrorsMaxima
  BY DEF MoneyInv
<1> QED BY <1>1, MoneyInvariant, PTL

-----------------------------------------------------------------------------
(* What a step never does. *)

\* An auction that is over accepts nothing.
LEMMA NothingPermittedWhenOver ==
  ASSUME status \in Terminal, NEW r, NEW at
  PROVE  ~Permitted(r, at)
BY AcceptedStatus DEF Permitted, Terminal

\* Nothing moves an auction that is over: every guard of the script refuses, so
\* a late bid, a retry or a scheduled close at most leaves a remembered refusal.
THEOREM OverStaysOver == Spec => OverIsOver
<1>1. ASSUME [Next]_vars, status \in Terminal PROVE UNCHANGED book
  <2>1. ASSUME NEW r, NEW at, UserMutation(r, at) PROVE UNCHANGED book
    <3>1. ~Bid(r, at) /\ ~BuyItNow(r, at) /\ ~Ban(r, at) /\ ~Cancel(r, at)
      BY <1>1, AcceptedStatus DEF Bid, BuyItNow, Ban, Cancel, Terminal
    <3> QED BY <2>1, <3>1 DEF UserMutation, Reject, book
  <2>2. CASE CloseDue
    <3>1. ~Close(CloseRequest(scan.deadline), scan.at)
      BY <1>1, AcceptedStatus DEF Close, Terminal
    <3> QED BY <2>2, <3>1 DEF CloseDue, Reject, book
  <2>3. CASE ScanDue \/ Tick \/ (\E a \in answers : ExpireAnswer(a))
                             \/ (\E u \in Users : ExpireRate(u))
    BY <2>3 DEF ScanDue, Tick, ExpireAnswer, ExpireRate, book
  <2>4. CASE UNCHANGED vars
    BY <2>4 DEF vars, book
  <2> QED BY <1>1, <2>1, <2>2, <2>3, <2>4 DEF Next
<1> QED BY <1>1, PTL DEF Spec, OverIsOver

\* The time a scan used is past.
ScanPast == scan.at <= clock

\* The clock never runs behind the scheduler.
LEMMA ScanPastInvariant == Spec => []ScanPast
<1>1. Init => ScanPast
  BY DEF Init, ScanPast, NoScan
<1>2. TypeOK /\ ScanPast /\ [Next]_vars => ScanPast'
  <2> SUFFICES ASSUME TypeOK, ScanPast, [Next]_vars PROVE ScanPast'
    OBVIOUS
  <2>0. clock \in Nat
    BY DEF TypeOK
  <2>1. ASSUME NEW r, NEW at, UserMutation(r, at) PROVE ScanPast'
    BY <2>1 DEF UserMutation, Bid, BuyItNow, Ban, Cancel, outside, ScanPast
  <2>2. CASE CloseDue
    BY <2>0, <2>2 DEF CloseDue, NoScan, ScanPast
  <2>3. CASE ScanDue
    BY <2>0, <2>3 DEF ScanDue, RecentTimes, ScanPast
  <2>4. CASE Tick
    <3>1. scan.at \in Int
      BY DEF TypeOK, NoScan
    <3> QED BY <2>0, <2>4, <3>1 DEF Tick, ScanPast
  <2>5. CASE (\E a \in answers : ExpireAnswer(a)) \/ (\E u \in Users : ExpireRate(u))
    BY <2>5 DEF ExpireAnswer, ExpireRate, outside, ScanPast
  <2>6. CASE UNCHANGED vars
    BY <2>6 DEF vars, outside, ScanPast
  <2> QED BY <2>1, <2>2, <2>3, <2>4, <2>5, <2>6 DEF Next
<1> QED BY <1>1, <1>2, TypeCorrect, PTL DEF Spec

\* A close the scheduler sends for a deadline that a bid has since moved is
\* refused: CLOSE compares the time of the scan with the end time it finds.
THEOREM NeverClosesEarly == Spec => NeverClosedEarly
<1>1. ASSUME TypeOK, ScanPast, [Next]_vars, status' = "ENDED", status # "ENDED"
      PROVE  endAt' <= clock
  <2>1. ASSUME NEW r, NEW at, UserMutation(r, at) PROVE FALSE
    <3>1. CASE Ban(r, at)
      BY <1>1, <3>1 DEF Ban, Dethrone, Settle
    <3> QED BY <1>1, <2>1, <3>1
            DEF UserMutation, Bid, BuyItNow, Cancel, Reject, Settle, hash
  <2>2. ASSUME Close(CloseRequest(scan.deadline), scan.at), CloseDue PROVE endAt' <= clock
    <3>1. scan.at >= endAt /\ endAt' = endAt
      BY <2>2 DEF Close, CanClose, Settle
    <3>2. scan.at \in Int /\ endAt \in Int /\ clock \in Int
      BY <1>1, <2>2 DEF TypeOK, CloseDue
    <3> QED BY <1>1, <3>1, <3>2 DEF ScanPast
  <2>3. CASE UNCHANGED hash
    BY <1>1, <2>3 DEF hash
  <2>4. CloseDue => Close(CloseRequest(scan.deadline), scan.at) \/ UNCHANGED hash
    BY DEF CloseDue, Reject
  <2>5. ScanDue \/ Tick \/ (\E a \in answers : ExpireAnswer(a)) \/ (\E u \in Users : ExpireRate(u))
          => UNCHANGED hash
    BY DEF ScanDue, Tick, ExpireAnswer, ExpireRate
  <2> QED BY <1>1, <2>1, <2>2, <2>3, <2>4, <2>5 DEF Next, vars
<1> QED BY <1>1, TypeCorrect, ScanPastInvariant, PTL DEF Spec, NeverClosedEarly

USE DEF Contract!Absent, Contract!NoUser

-----------------------------------------------------------------------------
(* Every step, as what it does to the stream and to the answers.           *)

\* What an accepted mutation appends.
EventOf(r, s, p, l, e, o) ==
  [op |-> r.op, key |-> r.key, actor |-> r.actor, amount |-> r.amount,
   target |-> r.target, price |-> p, leader |-> l, endAt |-> e, status |-> s, order |-> o]

\* r is accepted with the event e: nothing was over, and r had no answer.
Accepts(r, e) ==
  /\ r \in Request /\ Unanswered(r) /\ status \in {"PENDING", "ACTIVE"}
  /\ e \in Event /\ e.key = r.key
  /\ sequence' = sequence + 1
  /\ stream' = Append(stream, e)
  /\ answers' = answers \cup {[req |-> r, result |-> sequence + 1]}
  /\ status' = e.status
  /\ e.order => /\ e.status \in Terminal
                /\ e.leader \in Users \ (bans' \cup {Seller})
                /\ e.price <= IF e.op = "BUY_NOW" THEN e.amount ELSE maxima'[e.leader]

\* r is refused.
Refuses(r) ==
  /\ r \in Request /\ Unanswered(r)
  /\ answers' = answers \cup {[req |-> r, result |-> 0]}
  /\ UNCHANGED book

\* Nothing happens but to time and to what is forgotten.
Forgets == answers' \subseteq answers /\ UNCHANGED book

\* Publish appends EventOf.
LEMMA PublishAppends ==
  ASSUME TypeOK, NEW r \in Request, NEW s \in Statuses, NEW p \in Money,
         NEW l \in Users \cup {NoUser}, NEW e \in Nat, NEW o \in BOOLEAN,
         Publish(r, s, p, l, e, o)
  PROVE  /\ EventOf(r, s, p, l, e, o) \in Event
         /\ sequence' = sequence + 1
         /\ stream' = Append(stream, EventOf(r, s, p, l, e, o))
         /\ answers' = answers \cup {[req |-> r, result |-> sequence + 1]}
BY DEF Publish, EventOf, Request, Event

\* A bid is accepted with an event that orders nothing.
LEMMA BidAccepts ==
  ASSUME TypeOK, MoneyInv, NEW r \in UserRequests, NEW at \in Nat, Bid(r, at)
  PROVE  \E e \in Event : Accepts(r, e) /\ ~e.order /\ e.status = "ACTIVE"
<1> DEFINE o == ProxyOutcome(r.actor, r.amount)
           end == ExtendedEnd(at)
           e == EventOf(r, "ACTIVE", o.price, o.leader, end, FALSE)
<1>1. r \in Request /\ r.actor \in Users /\ r.amount \in Money
  BY UserRequestShape, MoneyAssumption DEF Bid, Money
<1>2. status \in {"PENDING", "ACTIVE"} /\ Unanswered(r) /\ status' = "ACTIVE"
  BY AcceptedStatus DEF Bid, Settle, Admitted
<1>3. MoneyTypes /\ (leaderId # NoUser => leaderMax \in Money)
  BY <1>2 DEF TypeOK, MoneyTypes, MoneyInv, LeaderStands, Bidders, MaybeMoney
<1>4. o.price \in Money /\ o.leader \in Users
  BY <1>1, <1>3, ProxyOutcomeTypes
<1>5. end \in Nat
  BY TimeAssumption DEF ExtendedEnd, TypeOK
<1>6. Publish(r, "ACTIVE", o.price, o.leader, end, FALSE)
  BY DEF Bid
<1>7. /\ e \in Event /\ sequence' = sequence + 1 /\ stream' = Append(stream, e)
      /\ answers' = answers \cup {[req |-> r, result |-> sequence + 1]}
  BY <1>1, <1>4, <1>5, <1>6, PublishAppends DEF Statuses
<1>8. e.key = r.key /\ e.status = "ACTIVE" /\ e.order = FALSE
  BY DEF EventOf
<1> HIDE DEF e
<1> QED BY <1>1, <1>2, <1>7, <1>8 DEF Accepts

\* A buy-now is accepted with an order for the buyer, at no more than was offered.
LEMMA BuyItNowAccepts ==
  ASSUME TypeOK, MoneyInv, NEW r \in UserRequests, NEW at \in Nat, BuyItNow(r, at)
  PROVE  \E e \in Event : Accepts(r, e) /\ e.status = "SOLD"
<1> DEFINE e == EventOf(r, "SOLD", BuyNow, r.actor, at, TRUE)
<1>1. r \in Request /\ r.actor \in Users /\ BuyNow \in Money /\ r.op = "BUY_NOW"
  BY UserRequestShape, MoneyAssumption DEF BuyItNow, CanBuyNow, Money
<1>2. status \in {"PENDING", "ACTIVE"} /\ Unanswered(r) /\ status' = "SOLD"
  BY AcceptedStatus DEF BuyItNow, Settle, Admitted
<1>3. /\ r.actor \notin bans' /\ r.actor # Seller /\ BuyNow <= r.amount
  BY <1>1, UserRequestShape, MoneyAssumption DEF BuyItNow, CanBuyNow, MayTrade, Money
<1>4. Publish(r, "SOLD", BuyNow, r.actor, at, TRUE)
  BY DEF BuyItNow
<1>5. /\ e \in Event /\ sequence' = sequence + 1 /\ stream' = Append(stream, e)
      /\ answers' = answers \cup {[req |-> r, result |-> sequence + 1]}
  BY <1>1, <1>4, PublishAppends DEF Statuses
<1>6. /\ e.key = r.key /\ e.status = "SOLD" /\ e.leader = r.actor
      /\ e.price = BuyNow /\ e.op = "BUY_NOW" /\ e.amount = r.amount
  BY <1>1 DEF EventOf
<1> HIDE DEF e
<1> QED BY <1>1, <1>2, <1>3, <1>5, <1>6 DEF Accepts, Terminal

\* A ban is accepted with an event that orders nothing.
LEMMA BanAccepts ==
  ASSUME TypeOK, NEW r \in UserRequests, NEW at \in Nat, Ban(r, at)
  PROVE  \E e \in Event : Accepts(r, e) /\ ~e.order /\ e.status = "ACTIVE"
<1> DEFINE e == EventOf(r, "ACTIVE", currentPrice, leaderId, endAt, FALSE)
<1>1. r \in Request /\ status \in {"PENDING", "ACTIVE"} /\ Unanswered(r)
  BY UserRequestShape, AcceptedStatus DEF Ban, Admitted
<1>2. status' = "ACTIVE"
  BY DEF Ban, Dethrone, Settle
<1>3. Publish(r, "ACTIVE", currentPrice, leaderId, endAt, FALSE)
  BY DEF Ban
<1>4. /\ e \in Event /\ sequence' = sequence + 1 /\ stream' = Append(stream, e)
      /\ answers' = answers \cup {[req |-> r, result |-> sequence + 1]}
  BY <1>1, <1>3, PublishAppends DEF Statuses, TypeOK
<1>5. e.key = r.key /\ e.status = "ACTIVE" /\ e.order = FALSE
  BY DEF EventOf
<1> HIDE DEF e
<1> QED BY <1>1, <1>2, <1>4, <1>5 DEF Accepts

\* So is a cancellation.
LEMMA CancelAccepts ==
  ASSUME TypeOK, NEW r \in UserRequests, NEW at \in Nat, Cancel(r, at)
  PROVE  \E e \in Event : Accepts(r, e) /\ ~e.order /\ e.status = "CANCELLED"
<1> DEFINE e == EventOf(r, "CANCELLED", currentPrice, leaderId, endAt, FALSE)
<1>1. r \in Request /\ status \in {"PENDING", "ACTIVE"} /\ Unanswered(r)
  BY UserRequestShape, AcceptedStatus DEF Cancel, Admitted
<1>2. status' = "CANCELLED"
  BY DEF Cancel, Settle
<1>3. Publish(r, "CANCELLED", currentPrice, leaderId, endAt, FALSE)
  BY DEF Cancel
<1>4. /\ e \in Event /\ sequence' = sequence + 1 /\ stream' = Append(stream, e)
      /\ answers' = answers \cup {[req |-> r, result |-> sequence + 1]}
  BY <1>1, <1>3, PublishAppends DEF Statuses, TypeOK
<1>5. e.key = r.key /\ e.status = "CANCELLED" /\ e.order = FALSE
  BY DEF EventOf
<1> HIDE DEF e
<1> QED BY <1>1, <1>2, <1>4, <1>5 DEF Accepts

\* A close is accepted with an order for the leader, if there is one, at a price
\* that the leader's standing maximum covers.
LEMMA CloseAccepts ==
  ASSUME TypeOK, MoneyInv, NEW r \in Request, NEW at \in Nat, Close(r, at)
  PROVE  \E e \in Event : Accepts(r, e) /\ e.status = "ENDED"
<1> DEFINE e == EventOf(r, "ENDED", currentPrice, leaderId, endAt, leaderId # NoUser)
<1>1. status \in {"PENDING", "ACTIVE"} /\ Unanswered(r) /\ r.op = "CLOSE"
  BY AcceptedStatus DEF Close, Admitted
<1>2. status' = "ENDED" /\ maxima' = maxima /\ bans' = bans
  BY DEF Close, Settle, standing
<1>3. Publish(r, "ENDED", currentPrice, leaderId, endAt, leaderId # NoUser)
  BY DEF Close
<1>4. /\ e \in Event /\ sequence' = sequence + 1 /\ stream' = Append(stream, e)
      /\ answers' = answers \cup {[req |-> r, result |-> sequence + 1]}
  BY <1>3, PublishAppends DEF Statuses, TypeOK
<1>5. /\ e.key = r.key /\ e.status = "ENDED" /\ e.order = (leaderId # NoUser)
      /\ e.leader = leaderId /\ e.price = currentPrice /\ e.op = "CLOSE"
  BY <1>1 DEF EventOf
<1>6. leaderId # NoUser => /\ leaderId \in Users \ (bans \cup {Seller})
                           /\ currentPrice <= maxima[leaderId]
  BY <1>1 DEF MoneyInv, LeaderStands, PriceIsCovered, Bidders
<1> HIDE DEF e
<1> QED BY <1>1, <1>2, <1>4, <1>5, <1>6 DEF Accepts, Terminal

\* A refusal of the script and what was remembered before.
LEMMA RejectRefuses ==
  ASSUME NEW r \in Request, NEW at, Reject(r, at)
  PROVE  Refuses(r)
BY DEF Reject, Refuses, Admitted, book

\* Every step accepts a mutation, refuses one, or does neither.
LEMMA StepKinds ==
  ASSUME TypeOK, MoneyInv, [Next]_vars
  PROVE  \/ \E r \in Request, e \in Event : Accepts(r, e)
         \/ \E r \in Request : Refuses(r)
         \/ Forgets
<1>1. ASSUME NEW r \in UserRequests, NEW at \in RecentTimes, UserMutation(r, at)
      PROVE  \/ \E e \in Event : Accepts(r, e)
             \/ Refuses(r)
  <2>1. at \in Nat /\ r \in Request
    BY UserRequestShape DEF RecentTimes
  <2>2. CASE Bid(r, at)
    BY <2>1, <2>2, BidAccepts
  <2>3. CASE BuyItNow(r, at)
    BY <2>1, <2>3, BuyItNowAccepts
  <2>4. CASE Ban(r, at)
    BY <2>1, <2>4, BanAccepts
  <2>5. CASE Cancel(r, at)
    BY <2>1, <2>5, CancelAccepts
  <2>6. CASE Reject(r, at)
    BY <2>1, <2>6, RejectRefuses
  <2> QED BY <1>1, <2>2, <2>3, <2>4, <2>5, <2>6 DEF UserMutation
<1>2. CASE CloseDue
  <2> DEFINE r == CloseRequest(scan.deadline)
  <2>1. scan.deadline \in Nat /\ scan.at \in Nat /\ r \in Request
    BY <1>2, CloseRequestShape DEF CloseDue, TypeOK
  <2>2. CASE Close(r, scan.at)
    BY <2>1, <2>2, CloseAccepts
  <2>3. CASE Reject(r, scan.at)
    BY <2>1, <2>3, RejectRefuses
  <2>4. CASE UNCHANGED <<hash, standing, bans, deadline, answers, rate, stream>>
    BY <2>4 DEF Forgets, book
  <2> QED BY <1>2, <2>1, <2>2, <2>3, <2>4 DEF CloseDue
<1>3. CASE ScanDue \/ Tick \/ (\E a \in answers : ExpireAnswer(a))
                    \/ (\E u \in Users : ExpireRate(u))
  BY <1>3 DEF ScanDue, Tick, ExpireAnswer, ExpireRate, Forgets, book
<1>4. CASE UNCHANGED vars
  BY <1>4 DEF vars, Forgets, book
<1> QED BY <1>1, <1>2, <1>3, <1>4, UserRequestShape DEF Next

-----------------------------------------------------------------------------
(* The stream and the answers. *)

\* The sequence of the state hash counts the events.
CountsEvents == Len(stream) = sequence

HistoryInv == CountsEvents /\ EndsOnce /\ AnsweredOnce

\* Appending an event.
LEMMA AppendEvent ==
  ASSUME TypeOK, NEW e \in Event, stream' = Append(stream, e)
  PROVE  /\ Len(stream') = Len(stream) + 1 /\ Len(stream) \in Nat
         /\ DOMAIN stream = 1 .. Len(stream) /\ DOMAIN stream' = 1 .. Len(stream) + 1
         /\ \A i \in 1 .. Len(stream) : stream'[i] = stream[i]
         /\ stream'[Len(stream) + 1] = e
<1>1. stream \in Seq(Event)
  BY DEF TypeOK
<1>2. Append(stream, e) \in Seq(Event)
  BY <1>1, AppendProperties
<1> QED BY <1>1, <1>2, AppendProperties, LenProperties

\* An accepted mutation keeps the stream and the answers in order: before it no
\* event had ended the auction, and nothing was remembered of its key.
LEMMA AcceptsHistory ==
  ASSUME TypeOK, HistoryInv, NEW r \in Request, NEW e \in Event, Accepts(r, e)
  PROVE  HistoryInv'
<1>1. /\ Len(stream') = Len(stream) + 1 /\ Len(stream) \in Nat
      /\ DOMAIN stream = 1 .. Len(stream) /\ DOMAIN stream' = 1 .. Len(stream) + 1
      /\ \A i \in 1 .. Len(stream) : stream'[i] = stream[i]
      /\ stream'[Len(stream) + 1] = e
  BY AppendEvent DEF Accepts
<1>2. CountsEvents'
  BY <1>1 DEF Accepts, HistoryInv, CountsEvents
<1>3. EndsOnce'
  <2> SUFFICES ASSUME NEW i \in DOMAIN stream'
               PROVE  /\ stream'[i].status \in Terminal =>
                            i = Len(stream') /\ status' = stream'[i].status
                      /\ stream'[i].order =>
                            /\ stream'[i].status \in Terminal
                            /\ stream'[i].leader \in Users \ (bans' \cup {Seller})
                            /\ stream'[i].price <= IF stream'[i].op = "BUY_NOW" THEN stream'[i].amount
                                                   ELSE maxima'[stream'[i].leader]
    BY DEF EndsOnce
  <2>1. CASE i = Len(stream) + 1
    BY <1>1, <2>1 DEF Accepts
  <2>2. CASE i \in 1 .. Len(stream)
    <3>1. stream[i].status \notin Terminal /\ ~stream[i].order
      BY <1>1, <2>2 DEF HistoryInv, EndsOnce, Accepts, Terminal
    <3> QED BY <1>1, <2>2, <3>1
  <2> QED BY <1>1, <2>1, <2>2
<1>4. AnsweredOnce'
  <2> SUFFICES ASSUME NEW a \in answers'
               PROVE  /\ \A b \in answers' : a.req.key = b.req.key => a = b
                      /\ a.result > 0 =>
                           /\ a.result <= Len(stream') /\ stream'[a.result].key = a.req.key
                           /\ \A i \in a.result + 1 .. Len(stream') : stream'[i].key # a.req.key
    BY DEF AnsweredOnce
  <2>0. sequence = Len(stream)
    BY DEF HistoryInv, CountsEvents
  <2> DEFINE new == [req |-> r, result |-> sequence + 1]
  <2>1. /\ answers' = answers \cup {new} /\ new.req.key = r.key /\ e.key = r.key
        /\ \A b \in answers : b.req.key # r.key
    BY DEF Accepts, Unanswered
  <2>2. CASE a = new
    <3>1. \A b \in answers' : a.req.key = b.req.key => a = b
      BY <2>1, <2>2
    <3>2. a.result = Len(stream) + 1 /\ a.req.key = e.key
      BY <2>0, <2>1, <2>2
    <3> QED BY <1>1, <3>1, <3>2
  <2>3. CASE a \in answers
    <3>1. a.req.key # e.key /\ a.result \in Nat
      BY <2>1, <2>3 DEF TypeOK, Answer
    <3>2. \A b \in answers' : a.req.key = b.req.key => a = b
      BY <2>1, <2>3 DEF HistoryInv, AnsweredOnce
    <3>3. a.result > 0 =>
            /\ a.result <= Len(stream) /\ stream[a.result].key = a.req.key
            /\ \A i \in a.result + 1 .. Len(stream) : stream[i].key # a.req.key
      BY <2>3 DEF HistoryInv, AnsweredOnce
    <3> QED BY <1>1, <3>1, <3>2, <3>3
  <2> HIDE DEF new
  <2> QED BY <2>1, <2>2, <2>3
<1> QED BY <1>2, <1>3, <1>4 DEF HistoryInv

\* A refusal is a first answer, and names no event.
LEMMA RefusesHistory ==
  ASSUME HistoryInv, NEW r \in Request, Refuses(r)
  PROVE  HistoryInv'
<1>1. CountsEvents' /\ EndsOnce'
  BY DEF Refuses, book, hash, standing, HistoryInv, CountsEvents, EndsOnce
<1>2. AnsweredOnce'
  BY DEF Refuses, Unanswered, book, HistoryInv, AnsweredOnce
<1> QED BY <1>1, <1>2 DEF HistoryInv

\* Forgetting an answer keeps what the others say.
LEMMA ForgetsHistory ==
  ASSUME HistoryInv, Forgets
  PROVE  HistoryInv'
BY DEF Forgets, book, hash, standing, HistoryInv, CountsEvents, EndsOnce, AnsweredOnce

LEMMA NextHistory ==
  ASSUME TypeOK, MoneyInv, HistoryInv, [Next]_vars
  PROVE  HistoryInv'
BY StepKinds, AcceptsHistory, RefusesHistory, ForgetsHistory

LEMMA InitHistory == Init => HistoryInv
BY DEF Init, HistoryInv, CountsEvents, EndsOnce, AnsweredOnce

\* The events, the state hash and the remembered answers never part.
THEOREM HistoryInvariant == Spec => []HistoryInv
<1>1. TypeOK /\ MoneyInv /\ HistoryInv /\ [Next]_vars => HistoryInv'
  BY NextHistory
<1> QED BY <1>1, InitHistory, MoneyInvariant, PTL DEF Spec

\* An auction ends once, and its one order goes to an account that could trade, at
\* a price it asked for or covered.
THEOREM AuctionEndsOnce == Spec => []EndsOnce
<1>1. HistoryInv => EndsOnce
  BY DEF HistoryInv
<1> QED BY <1>1, HistoryInvariant, PTL

\* A key changes the auction at most once while its answer is remembered, however
\* the answers of other keys come and go.
THEOREM KeyAnsweredOnce == Spec => []AnsweredOnce
<1>1. HistoryInv => AnsweredOnce
  BY DEF HistoryInv
<1> QED BY <1>1, HistoryInvariant, PTL

-----------------------------------------------------------------------------
(* The price of the proxy. *)

\* A bid settles at what the proxy decides, and only its bidder's maximum moves.
LEMMA BidSettles ==
  ASSUME TypeOK, MoneyInv, NEW r \in UserRequests, NEW at \in Nat, Bid(r, at)
  PROVE  /\ r.actor \in Users \ (bans \cup {Seller}) /\ r.amount \in Money
         /\ r.amount >= currentPrice + Step /\ r.amount > maxima[r.actor]
         /\ status \in {"PENDING", "ACTIVE"} /\ status' = "ACTIVE" /\ bans' = bans
         /\ maxima' = [maxima EXCEPT ![r.actor] = r.amount]
         /\ leaderId' = ProxyOutcome(r.actor, r.amount).leader
         /\ currentPrice' = ProxyOutcome(r.actor, r.amount).price
<1>1. r.actor \in Users /\ r.amount \in Money /\ status \in {"PENDING", "ACTIVE"}
  BY UserRequestShape, AcceptedStatus, MoneyAssumption DEF Bid, Money
<1> QED BY <1>1 DEF Bid, CanBid, MayTrade, Settle

\* Whoever loses to the proxy keeps the price within a step of their maximum.
LEMMA BidMinimal ==
  ASSUME TypeOK, MoneyInv, ProxyIsMinimal, NEW r \in UserRequests, NEW at \in Nat, Bid(r, at)
  PROVE  ProxyIsMinimal'
<1> DEFINE u == r.actor
           m == r.amount
<1>1. /\ u \in Users /\ m \in Money /\ status # "SOLD" /\ bans' = bans
      /\ maxima' = [maxima EXCEPT ![u] = m]
      /\ leaderId' = ProxyOutcome(u, m).leader
      /\ currentPrice' = ProxyOutcome(u, m).price
  BY BidSettles
<1>2. /\ maxima'[u] = m /\ m \in Int /\ m # Absent /\ Step \in Nat
      /\ \A v \in Users \ {u} : maxima'[v] = maxima[v]
  BY <1>1, MoneyAssumption DEF TypeOK, Money
<1>3. leaderId # NoUser => /\ leaderId \in Users /\ maxima[leaderId] = leaderMax
                           /\ leaderMax \in Int /\ leaderMax # Absent
  BY <1>1 DEF MoneyInv, LeaderStands, Bidders, TypeOK, MaybeMoney, Money
<1>4. CASE leaderId = NoUser
  <2>1. currentPrice = StartPrice
    BY <1>1, <1>4 DEF MoneyInv, PriceIsCovered
  <2> QED BY <1>1, <1>4, <2>1 DEF ProxyOutcome, ProxyIsMinimal
<1>5. CASE leaderId = u
  <2>1. currentPrice' = currentPrice /\ leaderId' = leaderId
    BY <1>1, <1>5 DEF ProxyOutcome
  <2>2. \A v \in Bidders \ {leaderId} : v \in Bidders' \ {leaderId'} /\ maxima'[v] = maxima[v]
    BY <1>2, <1>5, <2>1 DEF Bidders
  <2> QED BY <1>1, <2>1, <2>2 DEF ProxyIsMinimal
<1>6. CASE leaderId \notin {NoUser, u} /\ m <= leaderMax
  <2>1. leaderId' = leaderId /\ currentPrice' = Smaller(m + Step, leaderMax)
    BY <1>1, <1>6 DEF ProxyOutcome
  <2>2. u \in Bidders' \ {leaderId'} /\ currentPrice' <= maxima'[u] + Step
    BY <1>1, <1>2, <1>3, <1>6, <2>1 DEF Bidders, Smaller
  <2> QED BY <2>2 DEF ProxyIsMinimal
<1>7. CASE leaderId \notin {NoUser, u} /\ ~(m <= leaderMax)
  <2>1. leaderId' = u /\ currentPrice' = Smaller(leaderMax + Step, m)
    BY <1>1, <1>7 DEF ProxyOutcome
  <2>2. leaderId \in Bidders' \ {leaderId'} /\ currentPrice' <= maxima'[leaderId] + Step
    BY <1>1, <1>2, <1>3, <1>7, <2>1 DEF Bidders, Smaller
  <2> QED BY <2>2 DEF ProxyIsMinimal
<1> QED BY <1>4, <1>5, <1>6, <1>7

\* The steps other than a bid leave price, leader and maxima alone, or sell the
\* auction at the buy-now price, or ban somebody.
LEMMA OtherMinimal ==
  ASSUME TypeOK, ProxyIsMinimal,
         \/ status' = "SOLD"
         \/ bans' # {}
         \/ /\ status = "SOLD" => status' = "SOLD"
            /\ UNCHANGED <<currentPrice, leaderId, maxima, bans>>
  PROVE  ProxyIsMinimal'
BY DEF ProxyIsMinimal, Bidders

LEMMA NextMinimal ==
  ASSUME TypeOK, MoneyInv, ProxyIsMinimal, [Next]_vars
  PROVE  ProxyIsMinimal'
<1>1. ASSUME NEW r \in UserRequests, NEW at \in RecentTimes, UserMutation(r, at)
      PROVE  ProxyIsMinimal'
  <2>1. at \in Nat
    BY DEF RecentTimes
  <2>2. CASE Bid(r, at)
    BY <2>1, <2>2, BidMinimal
  <2>3. CASE BuyItNow(r, at)
    BY <2>3, OtherMinimal DEF BuyItNow, Settle
  <2>4. CASE Ban(r, at)
    BY <2>4, OtherMinimal DEF Ban
  <2>5. CASE Cancel(r, at)
    <3>1. status # "SOLD"
      BY <2>5, AcceptedStatus DEF Cancel
    <3> QED BY <2>5, <3>1, OtherMinimal DEF Cancel, Settle, standing
  <2>6. CASE Reject(r, at)
    BY <2>6, OtherMinimal DEF Reject, hash, standing
  <2> QED BY <1>1, <2>2, <2>3, <2>4, <2>5, <2>6 DEF UserMutation
<1>2. CASE CloseDue
  <2> DEFINE r == CloseRequest(scan.deadline)
  <2>1. CASE Close(r, scan.at)
    <3>1. status # "SOLD"
      BY <2>1, AcceptedStatus DEF Close
    <3> QED BY <2>1, <3>1, OtherMinimal DEF Close, Settle, standing
  <2>2. CASE Reject(r, scan.at)
    BY <2>2, OtherMinimal DEF Reject, hash, standing
  <2>3. CASE UNCHANGED <<hash, standing, bans, deadline, answers, rate, stream>>
    BY <2>3, OtherMinimal DEF hash, standing
  <2> QED BY <1>2, <2>1, <2>2, <2>3 DEF CloseDue
<1>3. CASE ScanDue \/ Tick \/ (\E a \in answers : ExpireAnswer(a))
                    \/ (\E u \in Users : ExpireRate(u))
  BY <1>3, OtherMinimal DEF ScanDue, Tick, ExpireAnswer, ExpireRate, hash, standing
<1>4. CASE UNCHANGED vars
  BY <1>4, OtherMinimal DEF vars, hash, standing
<1> QED BY <1>1, <1>2, <1>3, <1>4 DEF Next

\* The proxy never bids more than it has to: without a ban the price is the start
\* price, or at most a step above a maximum that lost.
THEOREM ProxyAlwaysMinimal == Spec => []ProxyIsMinimal
<1>1. Init => ProxyIsMinimal
  BY DEF Init, ProxyIsMinimal
<1>2. TypeOK /\ MoneyInv /\ ProxyIsMinimal /\ [Next]_vars => ProxyIsMinimal'
  BY NextMinimal
<1> QED BY <1>1, <1>2, MoneyInvariant, PTL DEF Spec

-----------------------------------------------------------------------------
(* The contract. *)

\* How the status is seen by the contract.
LEMMA Outcomes ==
  /\ status \in {"PENDING", "ACTIVE"} => ContractOutcome = Contract!Open
  /\ status = "SOLD" => ContractOutcome = Contract!Outcome("bought", leaderId, currentPrice)
  /\ status = "ENDED" /\ leaderId # NoUser =>
       ContractOutcome = Contract!Outcome("won", leaderId, currentPrice)
  /\ status = "ENDED" /\ leaderId = NoUser =>
       ContractOutcome = Contract!Outcome("unsold", NoUser, Absent)
  /\ status = "CANCELLED" => ContractOutcome = Contract!Outcome("withdrawn", NoUser, Absent)
BY DEF ContractOutcome, Contract!Open, Contract!Outcome, Contract!NoUser, Contract!Absent

LEMMA OutcomesNext ==
  /\ status' \in {"PENDING", "ACTIVE"} => ContractOutcome' = Contract!Open
  /\ status' = "SOLD" => ContractOutcome' = Contract!Outcome("bought", leaderId', currentPrice')
  /\ status' = "ENDED" /\ leaderId' # NoUser =>
       ContractOutcome' = Contract!Outcome("won", leaderId', currentPrice')
  /\ status' = "ENDED" /\ leaderId' = NoUser =>
       ContractOutcome' = Contract!Outcome("unsold", NoUser, Absent)
  /\ status' = "CANCELLED" => ContractOutcome' = Contract!Outcome("withdrawn", NoUser, Absent)
BY DEF ContractOutcome, Contract!Open, Contract!Outcome, Contract!NoUser, Contract!Absent

\* What the contract does not see.
LEMMA ContractStutter ==
  ASSUME UNCHANGED <<status, leaderId, currentPrice, maxima, bans>>
  PROVE  UNCHANGED Contract!vars
BY DEF Contract!vars, ContractOutcome

\* A bid is an offer.
LEMMA BidOffers ==
  ASSUME TypeOK, MoneyInv, NEW r \in UserRequests, NEW at \in Nat, Bid(r, at)
  PROVE  Contract!Next
<1>1. /\ r.actor \in Users \ (bans \cup {Seller}) /\ r.amount \in 1..MaxMoney
      /\ r.amount > maxima[r.actor] /\ bans' = bans
      /\ maxima' = [maxima EXCEPT ![r.actor] = r.amount]
      /\ ContractOutcome = Contract!Open /\ ContractOutcome' = Contract!Open
  BY BidSettles, Outcomes, OutcomesNext DEF Money
<1>2. r.amount > StartPrice
  <2>1. r.amount >= currentPrice + Step /\ status # "SOLD" /\ r.amount \in Money
    BY BidSettles
  <2>2. StartPrice <= currentPrice
    BY <2>1 DEF MoneyInv, PriceIsCovered
  <2> QED BY <2>1, <2>2, MoneyAssumption DEF TypeOK, Money
<1>3. Contract!Offer(r.actor, r.amount)
  BY <1>1, <1>2 DEF Contract!Offer, Contract!Traders
<1> QED BY <1>1, <1>3 DEF Contract!Next

\* A buy-now is a buy-out.
LEMMA BuyItNowBuysOut ==
  ASSUME TypeOK, NEW r \in UserRequests, NEW at \in Nat, BuyItNow(r, at)
  PROVE  Contract!Next
<1>1. /\ r.actor \in Users \ (bans \cup {Seller}) /\ BuyNow # Absent
      /\ status \in {"PENDING", "ACTIVE"}
  BY UserRequestShape, AcceptedStatus DEF BuyItNow, CanBuyNow, MayTrade
<1>2. /\ status' = "SOLD" /\ leaderId' = r.actor /\ currentPrice' = BuyNow
      /\ UNCHANGED <<maxima, bans>>
  BY DEF BuyItNow, Settle, standing
<1>3. Contract!BuyOut(r.actor)
  BY <1>1, <1>2, Outcomes, OutcomesNext DEF Contract!BuyOut, Contract!Traders, Contract!Absent
<1> QED BY <1>1, <1>3 DEF Contract!Next

\* A ban is an exclusion.
LEMMA BanExcludes ==
  ASSUME TypeOK, NEW r \in UserRequests, NEW at \in Nat, Ban(r, at)
  PROVE  Contract!Next
<1>1. /\ r.target \in Users \ (bans \cup {Seller}) /\ status \in {"PENDING", "ACTIVE"}
  BY UserRequestShape, AcceptedStatus DEF Ban, CanBan
<1>2. /\ status' = "ACTIVE" /\ bans' = bans \cup {r.target}
      /\ maxima' = [maxima EXCEPT ![r.target] = Absent]
  BY DEF Ban, Dethrone, Settle
<1>3. Contract!Exclude(r.target)
  BY <1>1, <1>2, Outcomes, OutcomesNext DEF Contract!Exclude, Contract!Traders, Contract!Absent
<1> QED BY <1>1, <1>3 DEF Contract!Next

\* A cancellation is a withdrawal.
LEMMA CancelWithdraws ==
  ASSUME NEW r \in UserRequests, NEW at \in Nat, Cancel(r, at)
  PROVE  Contract!Next
<1>1. status \in {"PENDING", "ACTIVE"} /\ status' = "CANCELLED" /\ UNCHANGED <<maxima, bans>>
  BY AcceptedStatus DEF Cancel, Settle, standing
<1>2. Contract!Withdraw
  BY <1>1, Outcomes, OutcomesNext DEF Contract!Withdraw, Contract!NoUser, Contract!Absent
<1> QED BY <1>2 DEF Contract!Next

\* A close lets the leader win, or lapses.
LEMMA CloseSettles ==
  ASSUME TypeOK, MoneyInv, NEW r \in Request, NEW at \in Nat, Close(r, at)
  PROVE  Contract!Next
<1>1. /\ status \in {"PENDING", "ACTIVE"} /\ status' = "ENDED"
      /\ UNCHANGED <<leaderId, currentPrice, maxima, bans>>
  BY AcceptedStatus DEF Close, Settle, standing
<1>2. CASE leaderId = NoUser
  <2>1. \A u \in Users : maxima[u] = Absent
    BY <1>1, <1>2 DEF MoneyInv, LeaderStands, Bidders
  <2>2. Contract!Lapse
    BY <1>1, <1>2, <2>1, Outcomes, OutcomesNext
       DEF Contract!Lapse, Contract!NoUser, Contract!Absent
  <2> QED BY <2>2 DEF Contract!Next
<1>3. CASE leaderId # NoUser
  <2>1. /\ leaderId \in Users \ (bans \cup {Seller})
        /\ StartPrice <= currentPrice /\ currentPrice <= maxima[leaderId]
        /\ \A v \in Users \ {leaderId} : maxima[v] <= currentPrice
    BY <1>1, <1>3 DEF MoneyInv, LeaderStands, PriceIsCovered, Bidders
  <2>2. Contract!Win(leaderId, currentPrice)
    BY <1>1, <1>3, <2>1, Outcomes, OutcomesNext DEF Contract!Win, Contract!Traders
  <2> QED BY <2>1, <2>2 DEF Contract!Next, TypeOK, Money
<1> QED BY <1>2, <1>3

\* Every step of the authority is a step of the contract, or one it does not see.
LEMMA NextImplements ==
  ASSUME TypeOK, MoneyInv, [Next]_vars
  PROVE  [Contract!Next]_(Contract!vars)
<1>1. ASSUME NEW r \in UserRequests, NEW at \in RecentTimes, UserMutation(r, at)
      PROVE  Contract!Next \/ UNCHANGED Contract!vars
  <2>1. at \in Nat
    BY DEF RecentTimes
  <2>2. CASE Reject(r, at)
    BY <2>2, ContractStutter DEF Reject, hash, standing
  <2> QED BY <1>1, <2>1, <2>2, BidOffers, BuyItNowBuysOut, BanExcludes, CancelWithdraws
          DEF UserMutation
<1>2. CASE CloseDue
  <2> DEFINE r == CloseRequest(scan.deadline)
  <2>1. scan.deadline \in Nat /\ scan.at \in Nat /\ r \in Request
    BY <1>2, CloseRequestShape DEF CloseDue, TypeOK
  <2>2. CASE Close(r, scan.at)
    BY <2>1, <2>2, CloseSettles
  <2>3. CASE UNCHANGED <<hash, standing, bans>>
    BY <2>3, ContractStutter DEF hash, standing
  <2> QED BY <1>2, <2>2, <2>3 DEF CloseDue, Reject
<1>3. CASE ScanDue \/ Tick \/ (\E a \in answers : ExpireAnswer(a))
                    \/ (\E u \in Users : ExpireRate(u))
  BY <1>3, ContractStutter DEF ScanDue, Tick, ExpireAnswer, ExpireRate, hash, standing
<1>4. CASE UNCHANGED vars
  BY <1>4, ContractStutter DEF vars, hash, standing
<1> QED BY <1>1, <1>2, <1>3, <1>4 DEF Next

\* The authority implements its contract: it settles once, in favour of the highest
\* standing maximum and at a price no losing maximum could raise, whatever bids,
\* bans, retries, scans and expiries it is made of.
THEOREM AuthorityImplementsContract == Spec => ImplementsContract
<1>1. Init => Contract!Init
  BY Outcomes DEF Init, Contract!Init, Contract!Absent
<1>2. TypeOK /\ MoneyInv /\ [Next]_vars => [Contract!Next]_(Contract!vars)
  BY NextImplements
<1> QED BY <1>1, <1>2, MoneyInvariant, PTL DEF Spec, ImplementsContract, Contract!Spec

-----------------------------------------------------------------------------
(* The projection of the authority's stream. *)

\* What is proved of any projection, for this one.
Proved == INSTANCE StreamProjectionProofs
  WITH script <- stream, Trials <- {}, MaxEvents <- MaxUserEvents + 1,
       OpeningStatus <- IF StartAt = 0 THEN "ACTIVE" ELSE "PENDING"

LEMMA ProjectorAssumed == Proved!ProjectorAssumption
<1>1. \A e \in Event : Proved!IsEvent(e)
  <2> SUFFICES ASSUME NEW e \in Event PROVE Proved!IsEvent(e)
    OBVIOUS
  <2>1. /\ e.op \in Operations /\ e.status \in Statuses /\ e.order \in BOOLEAN
        /\ e.actor \in Users \cup {System} /\ e.amount \in MaybeMoney /\ e.target \in Users \cup {NoUser}
        /\ e.price \in Money /\ e.leader \in Users \cup {NoUser} /\ e.endAt \in Nat
    BY DEF Event
  <2>2. e.actor \in Int /\ e.target \in Int /\ e.leader \in Int
    <3>1. \A u \in Users \cup {0} : u \in Int
      BY PartiesAssumption
    <3> QED BY <2>1, <3>1
  <2>3. e.amount \in Int /\ e.price \in Int /\ e.endAt \in Int
    BY <2>1 DEF Money, MaybeMoney
  <2> QED BY <2>1, <2>2, <2>3 DEF Proved!IsEvent, Proved!Status, Proved!TerminalStatus, Operations, Statuses
<1> QED BY <1>1, PipelineAssumption, MoneyAssumption, TimeAssumption, LimitAssumption
        DEF Proved!ProjectorAssumption, Proved!Status, Proved!TerminalStatus

\* The projection is the one that the proofs are about.
LEMMA SameStart == Projection!InitProjection => Proved!InitProjection
BY DEF Projection!InitProjection, Proved!InitProjection, Projection!Resting, Proved!Resting,
       Projection!EmptyDb, Proved!EmptyDb, Projection!NobodyLeads, Proved!NobodyLeads

LEMMA SameClaim ==
  ASSUME NEW c, Projection!Claim(c) PROVE Proved!Claim(c)
BY DEF Proved!Claim, Projection!Claim, Proved!At, Projection!At, Proved!FirstOf, Projection!FirstOf,
       Proved!InOrder, Projection!InOrder, Proved!Cardinality, Projection!Cardinality,
       Proved!environment, Projection!environment

LEMMA SameRead ==
  ASSUME NEW c, Projection!Read(c) PROVE Proved!Read(c)
BY DEF Proved!Read, Projection!Read, Proved!At, Projection!At, Proved!FirstOf, Projection!FirstOf,
       Proved!InOrder, Projection!InOrder, Proved!Cardinality, Projection!Cardinality,
       Proved!Unread, Projection!Unread, Proved!Entries, Projection!Entries,
       Proved!Abandon, Projection!Abandon, Proved!Resting, Projection!Resting,
       Proved!Fault, Projection!Fault, Proved!environment, Projection!environment

LEMMA SameProjectLane ==
  ASSUME NEW c, Projection!ProjectLane(c) PROVE Proved!ProjectLane(c)
<1> DEFINE new == Projection!InOrder(Projection!Range(worker[c].lane) \ db.receipts)
<1>1. new = Proved!InOrder(Proved!Range(worker[c].lane) \ db.receipts)
  BY DEF Proved!InOrder, Projection!InOrder, Proved!Cardinality, Projection!Cardinality,
         Proved!Range, Projection!Range
<1>2. \A batch : /\ Projection!Follows(batch) <=> Proved!Follows(batch)
                 /\ Projection!WithLane(db, batch) = Proved!WithLane(db, batch)
  BY DEF Proved!Follows, Projection!Follows, Proved!WithLane, Projection!WithLane,
         Proved!Range, Projection!Range, Proved!Last, Projection!Last, Proved!Snapshot, Projection!Snapshot,
         Proved!BannedBy, Projection!BannedBy, Proved!HistoryRow, Projection!HistoryRow,
         Proved!OrderRow, Projection!OrderRow, Proved!CreatesOrder, Projection!CreatesOrder,
         Proved!NobodyLeads, Projection!NobodyLeads
<1> HIDE DEF new
<1> QED BY <1>1, <1>2 DEF new, Proved!ProjectLane, Projection!ProjectLane, Proved!At, Projection!At,
       Proved!Goto, Projection!Goto, Proved!Isolate, Projection!Isolate, Proved!Fault, Projection!Fault,
       Proved!environment, Projection!environment, Proved!redis, Projection!redis

LEMMA SameProjectEntry ==
  ASSUME NEW c, Projection!ProjectEntry(c) PROVE Proved!ProjectEntry(c)
<1>1. Projection!Entry(c) = Proved!Entry(c)
  BY DEF Proved!Entry, Projection!Entry
<1>2. \A batch : Projection!Follows(batch) <=> Proved!Follows(batch)
  BY DEF Proved!Follows, Projection!Follows
<1>3. \A i : /\ Projection!Received(i) <=> Proved!Received(i)
             /\ Projection!WithEntry(db, i) = Proved!WithEntry(db, i)
  BY DEF Proved!Received, Projection!Received, Proved!WithEntry, Projection!WithEntry,
         Proved!Snapshot, Projection!Snapshot, Proved!Entries, Projection!Entries,
         Proved!BannedBy, Projection!BannedBy, Proved!HistoryRow, Projection!HistoryRow,
         Proved!OrderRow, Projection!OrderRow, Proved!CreatesOrder, Projection!CreatesOrder,
         Proved!NobodyLeads, Projection!NobodyLeads
<1> QED BY <1>1, <1>2, <1>3 DEF Proved!ProjectEntry, Projection!ProjectEntry, Proved!At, Projection!At,
       Proved!Goto, Projection!Goto, Proved!Fault, Projection!Fault,
       Proved!environment, Projection!environment, Proved!redis, Projection!redis

\* The moves of a consumer behind a transaction.
LEMMA SameMoves ==
  ASSUME NEW c
  PROVE  /\ Projection!Entry(c) = Proved!Entry(c)
         /\ \A s : (Projection!At(c, s) <=> Proved!At(c, s)) /\ (Projection!Goto(c, s) <=> Proved!Goto(c, s))
         /\ Projection!Isolate(c) <=> Proved!Isolate(c)
         /\ Projection!Abandon(c) <=> Proved!Abandon(c)
         /\ Projection!Advance(c) <=> Proved!Advance(c)
         /\ \A i : Projection!Forget(i) <=> Proved!Forget(i)
         /\ \A kind : Projection!Fault(kind) <=> Proved!Fault(kind)
         /\ Projection!Expires(c) <=> Proved!Expires(c)
BY DEF Proved!Entry, Projection!Entry, Proved!At, Projection!At, Proved!Goto, Projection!Goto,
       Proved!Isolate, Projection!Isolate, Proved!Abandon, Projection!Abandon,
       Proved!Resting, Projection!Resting, Proved!Advance, Projection!Advance,
       Proved!Forget, Projection!Forget, Proved!Fault, Projection!Fault, Proved!Expires, Projection!Expires,
       Proved!TerminalStatus, Projection!TerminalStatus

LEMMA SameFinish ==
  ASSUME NEW c
  PROVE  /\ Projection!RecordFailure(c) => Proved!RecordFailure(c)
         /\ Projection!Acknowledge(c) => Proved!Acknowledge(c)
         /\ Projection!Delete(c) => Proved!Delete(c)
         /\ Projection!RedisError(c) => Proved!RedisError(c)
<1>1. Projection!RecordFailure(c) => Proved!RecordFailure(c)
  BY SameMoves DEF Proved!RecordFailure, Projection!RecordFailure, Proved!GivesUp, Projection!GivesUp,
     Proved!Buried, Projection!Buried, Proved!environment, Projection!environment
<1>2. Projection!Acknowledge(c) => Proved!Acknowledge(c)
  BY SameMoves DEF Proved!Acknowledge, Projection!Acknowledge, Proved!environment, Projection!environment
<1>3. Projection!Delete(c) => Proved!Delete(c)
  BY SameMoves DEF Proved!Delete, Projection!Delete, Proved!environment, Projection!environment
<1>4. Projection!RedisError(c) => Proved!RedisError(c)
  BY SameMoves DEF Proved!RedisError, Projection!RedisError, Proved!environment, Projection!environment
<1> QED BY <1>1, <1>2, <1>3, <1>4

LEMMA SameProjection == Projection!Project => Proved!Next
<1>1. ASSUME NEW c \in Consumers, Projection!Work(c) PROVE Proved!Work(c)
  BY <1>1, SameClaim, SameRead, SameProjectLane, SameProjectEntry, SameFinish DEF Proved!Work, Projection!Work
<1>2. Projection!Restart => Proved!Restart
  BY DEF Proved!Restart, Projection!Restart, Proved!Fault, Projection!Fault, Proved!Resting, Projection!Resting,
         Proved!Entries, Projection!Entries, Proved!CompactionThreshold, Projection!CompactionThreshold,
         Proved!environment, Projection!environment
<1>3. Projection!Age => Proved!Age
  BY DEF Proved!Age, Projection!Age, Proved!environment, Projection!environment
<1>4. Projection!Outage \/ Projection!OutageEnds => Proved!Outage \/ Proved!OutageEnds
  BY DEF Proved!Outage, Projection!Outage, Proved!OutageEnds, Projection!OutageEnds, Proved!Fault, Projection!Fault,
         Proved!environment, Projection!environment, Proved!redis, Projection!redis
<1> QED BY <1>1, <1>2, <1>3, <1>4, SameFinish DEF Proved!Next, Proved!Project, Projection!Project

-----------------------------------------------------------------------------
(* Every step of the authority, as what its event tells.                   *)

\* The event e tells what the step has done; of the bidder who led before a ban
\* it tells that instead of who leads now.
Tells(e) ==
  /\ status \in {"PENDING", "ACTIVE"} /\ sequence' = sequence + 1
  /\ stream' = Append(stream, e)
  /\ e.status = status' /\ e.endAt = endAt'
  /\ \/ e.price = currentPrice' /\ e.leader = leaderId'
     \/ e.op = "BAN" /\ e.target = e.leader /\ leaderId' # e.leader
  /\ bans' = bans \cup IF e.op = "BAN" THEN {e.target} ELSE {}
  /\ e.op = "BID" => /\ e.actor \in Users /\ e.amount \in Money /\ e.amount > maxima[e.actor]
                     /\ maxima' = [maxima EXCEPT ![e.actor] = e.amount]
  /\ e.op = "BAN" => e.target \in Users /\ maxima' = [maxima EXCEPT ![e.target] = Absent]
  /\ e.op \notin {"BID", "BAN"} => maxima' = maxima
  /\ (e.order /\ e.leader # NoUser) <=> (status' = "SOLD" \/ (status' = "ENDED" /\ leaderId' # NoUser))
  /\ sequence < MaxUserEvents \/ status' \in Terminal

LEMMA BidTells ==
  ASSUME TypeOK, MoneyInv, NEW r \in UserRequests, NEW at \in Nat, Bid(r, at), sequence < MaxUserEvents
  PROVE  \E e \in Event : Tells(e)
<1> DEFINE o == ProxyOutcome(r.actor, r.amount)
           end == ExtendedEnd(at)
           e == EventOf(r, "ACTIVE", o.price, o.leader, end, FALSE)
<1>1. /\ r.actor \in Users /\ r.amount \in Money /\ r.amount > maxima[r.actor]
      /\ status \in {"PENDING", "ACTIVE"} /\ status' = "ACTIVE" /\ bans' = bans
      /\ maxima' = [maxima EXCEPT ![r.actor] = r.amount]
      /\ leaderId' = o.leader /\ currentPrice' = o.price
  BY BidSettles
<1>2. endAt' = end /\ r.op = "BID" /\ r \in Request
  BY UserRequestShape DEF Bid, Settle
<1>3. MoneyTypes /\ (leaderId # NoUser => leaderMax \in Money)
  BY <1>1 DEF TypeOK, MoneyTypes, MoneyInv, LeaderStands, Bidders, MaybeMoney
<1>4. o.price \in Money /\ o.leader \in Users
  BY <1>1, <1>3, ProxyOutcomeTypes
<1>5. end \in Nat
  BY TimeAssumption DEF ExtendedEnd, TypeOK
<1>6. Publish(r, "ACTIVE", o.price, o.leader, end, FALSE)
  BY DEF Bid
<1>7. e \in Event /\ sequence' = sequence + 1 /\ stream' = Append(stream, e)
  BY <1>2, <1>4, <1>5, <1>6, PublishAppends DEF Statuses
<1>8. /\ e.op = "BID" /\ e.actor = r.actor /\ e.amount = r.amount /\ e.status = "ACTIVE"
      /\ e.price = o.price /\ e.leader = o.leader /\ e.endAt = end /\ e.order = FALSE
  BY <1>2 DEF EventOf
<1> HIDE DEF e, o, end
<1> QED BY <1>1, <1>2, <1>7, <1>8 DEF Tells

LEMMA BuyItNowTells ==
  ASSUME TypeOK, MoneyInv, NEW r \in UserRequests, NEW at \in Nat, BuyItNow(r, at)
  PROVE  \E e \in Event : Tells(e)
<1> DEFINE e == EventOf(r, "SOLD", BuyNow, r.actor, at, TRUE)
<1>1. r \in Request /\ r.actor \in Users /\ BuyNow \in Money /\ r.op = "BUY_NOW" /\ r.actor # NoUser
  BY UserRequestShape, MoneyAssumption, PartiesAssumption DEF BuyItNow, CanBuyNow, Money
<1>2. status \in {"PENDING", "ACTIVE"}
  BY AcceptedStatus DEF BuyItNow
<1>3. /\ status' = "SOLD" /\ currentPrice' = BuyNow /\ leaderId' = r.actor /\ endAt' = at
      /\ maxima' = maxima /\ bans' = bans
  BY DEF BuyItNow, Settle, standing
<1>4. Publish(r, "SOLD", BuyNow, r.actor, at, TRUE)
  BY DEF BuyItNow
<1>5. e \in Event /\ sequence' = sequence + 1 /\ stream' = Append(stream, e)
  BY <1>1, <1>4, PublishAppends DEF Statuses
<1>6. /\ e.op = "BUY_NOW" /\ e.status = "SOLD" /\ e.leader = r.actor
      /\ e.price = BuyNow /\ e.endAt = at /\ e.order = TRUE
  BY <1>1 DEF EventOf
<1> HIDE DEF e
<1> QED BY <1>1, <1>2, <1>3, <1>5, <1>6 DEF Tells, Terminal

\* A ban that takes the lead from somebody leaves it with somebody else.
LEMMA BanTells ==
  ASSUME TypeOK, MoneyInv, NEW r \in UserRequests, NEW at \in Nat, Ban(r, at), sequence < MaxUserEvents
  PROVE  \E e \in Event : Tells(e)
<1> DEFINE e == EventOf(r, "ACTIVE", currentPrice, leaderId, endAt, FALSE)
<1>1. r \in Request /\ r.target \in Users /\ r.op = "BAN" /\ status \in {"PENDING", "ACTIVE"}
  BY UserRequestShape, AcceptedStatus DEF Ban
<1>2. status' = "ACTIVE" /\ endAt' = endAt
  BY DEF Ban, Dethrone, Settle
<1>3. bans' = bans \cup {r.target} /\ maxima' = [maxima EXCEPT ![r.target] = Absent]
  BY DEF Ban
<1>4. leaderId' # r.target
  <2>1. LeaderStands'
    BY BanMoney DEF MoneyInv
  <2> QED BY <1>1, <1>2, <1>3, <2>1, PartiesAssumption DEF LeaderStands
<1>5. \/ currentPrice' = currentPrice /\ leaderId' = leaderId
      \/ leaderId = r.target
  BY DEF Ban, Settle
<1>6. Publish(r, "ACTIVE", currentPrice, leaderId, endAt, FALSE)
  BY DEF Ban
<1>7. e \in Event /\ sequence' = sequence + 1 /\ stream' = Append(stream, e)
  BY <1>1, <1>6, PublishAppends DEF Statuses, TypeOK
<1>8. /\ e.op = "BAN" /\ e.target = r.target /\ e.status = "ACTIVE" /\ e.endAt = endAt
      /\ e.price = currentPrice /\ e.leader = leaderId /\ e.order = FALSE
  BY <1>1 DEF EventOf
<1> HIDE DEF e
<1> QED BY <1>1, <1>2, <1>3, <1>4, <1>5, <1>7, <1>8 DEF Tells

LEMMA CancelTells ==
  ASSUME TypeOK, NEW r \in UserRequests, NEW at \in Nat, Cancel(r, at)
  PROVE  \E e \in Event : Tells(e)
<1> DEFINE e == EventOf(r, "CANCELLED", currentPrice, leaderId, endAt, FALSE)
<1>1. r \in Request /\ r.op = "CANCEL" /\ status \in {"PENDING", "ACTIVE"}
  BY UserRequestShape, AcceptedStatus DEF Cancel
<1>2. /\ status' = "CANCELLED" /\ currentPrice' = currentPrice /\ leaderId' = leaderId /\ endAt' = endAt
      /\ maxima' = maxima /\ bans' = bans
  BY DEF Cancel, Settle, standing
<1>3. Publish(r, "CANCELLED", currentPrice, leaderId, endAt, FALSE)
  BY DEF Cancel
<1>4. e \in Event /\ sequence' = sequence + 1 /\ stream' = Append(stream, e)
  BY <1>1, <1>3, PublishAppends DEF Statuses, TypeOK
<1>5. /\ e.op = "CANCEL" /\ e.status = "CANCELLED" /\ e.endAt = endAt
      /\ e.price = currentPrice /\ e.leader = leaderId /\ e.order = FALSE
  BY <1>1 DEF EventOf
<1> HIDE DEF e
<1> QED BY <1>1, <1>2, <1>4, <1>5 DEF Tells, Terminal

LEMMA CloseTells ==
  ASSUME TypeOK, NEW r \in Request, NEW at \in Nat, Close(r, at)
  PROVE  \E e \in Event : Tells(e)
<1> DEFINE e == EventOf(r, "ENDED", currentPrice, leaderId, endAt, leaderId # NoUser)
<1>1. r.op = "CLOSE" /\ status \in {"PENDING", "ACTIVE"}
  BY AcceptedStatus DEF Close
<1>2. /\ status' = "ENDED" /\ currentPrice' = currentPrice /\ leaderId' = leaderId /\ endAt' = endAt
      /\ maxima' = maxima /\ bans' = bans
  BY DEF Close, Settle, standing
<1>3. Publish(r, "ENDED", currentPrice, leaderId, endAt, leaderId # NoUser)
  BY DEF Close
<1>4. e \in Event /\ sequence' = sequence + 1 /\ stream' = Append(stream, e)
  BY <1>3, PublishAppends DEF Statuses, TypeOK
<1>5. /\ e.op = "CLOSE" /\ e.status = "ENDED" /\ e.endAt = endAt
      /\ e.price = currentPrice /\ e.leader = leaderId /\ e.order = (leaderId # NoUser)
  BY <1>1 DEF EventOf
<1> HIDE DEF e
<1> QED BY <1>1, <1>2, <1>4, <1>5 DEF Tells, Terminal

LEMMA StepTells ==
  ASSUME TypeOK, MoneyInv, Next
  PROVE  (\E e \in Event : Tells(e)) \/ UNCHANGED book
<1>1. ASSUME NEW r \in UserRequests, NEW at \in RecentTimes, UserMutation(r, at), sequence < MaxUserEvents
      PROVE  (\E e \in Event : Tells(e)) \/ UNCHANGED book
  <2>1. at \in Nat
    BY DEF RecentTimes
  <2>2. Reject(r, at) => UNCHANGED book
    BY DEF Reject, book
  <2> QED BY <1>1, <2>1, <2>2, BidTells, BuyItNowTells, BanTells, CancelTells DEF UserMutation
<1>2. CASE CloseDue
  <2> DEFINE r == CloseRequest(scan.deadline)
  <2>1. scan.at \in Nat /\ r \in Request
    BY <1>2, CloseRequestShape DEF CloseDue, TypeOK
  <2>2. Reject(r, scan.at) => UNCHANGED book
    BY DEF Reject, book
  <2> QED BY <1>2, <2>1, <2>2, CloseTells DEF CloseDue, book
<1>3. CASE ScanDue \/ Tick \/ (\E a \in answers : ExpireAnswer(a)) \/ (\E u \in Users : ExpireRate(u))
  BY <1>3 DEF ScanDue, Tick, ExpireAnswer, ExpireRate, book
<1> QED BY <1>1, <1>2, <1>3 DEF Next

-----------------------------------------------------------------------------
(* The rows of a replay hold the standing maxima.                          *)

\* A bid of u that no ban has taken back.
StandsFor(h, u) == h.user = u /\ ~h.banned

\* The highest standing row of a bidder is the standing maximum.
HoldsMaxima(rows, f) ==
  \A u \in Users :
    /\ \A h \in rows : StandsFor(h, u) => f[u] # Absent /\ h.max <= f[u]
    /\ f[u] # Absent => \E h \in rows : StandsFor(h, u) /\ h.max = f[u]

LEMMA HoldsBid ==
  ASSUME NEW rows \in SUBSET Proved!HistoryRecord, NEW f \in [Users -> MaybeMoney], HoldsMaxima(rows, f),
         NEW h, h.user \in Users, ~h.banned, h.max \in Money, h.max > f[h.user]
  PROVE  HoldsMaxima(rows \cup {h}, [f EXCEPT ![h.user] = h.max])
<1> DEFINE g == [f EXCEPT ![h.user] = h.max]
<1>1. g[h.user] = h.max /\ \A v \in Users \ {h.user} : g[v] = f[v]
  OBVIOUS
<1>2. h.max # Absent /\ h.max \in Int /\ \A v \in Users : f[v] \in Int
  BY DEF Money, MaybeMoney
<1>3. \A k \in rows : k.max \in Int
  BY DEF Proved!HistoryRecord
<1> HIDE DEF g
<1>4. ASSUME NEW u \in Users, NEW k \in rows \cup {h}, StandsFor(k, u)
      PROVE  g[u] # Absent /\ k.max <= g[u]
  <2>1. CASE k = h
    BY <1>1, <1>2, <1>4, <2>1 DEF StandsFor
  <2>2. CASE k \in rows
    <3>1. f[u] # Absent /\ k.max <= f[u]
      BY <1>4, <2>2 DEF HoldsMaxima
    <3> QED BY <1>1, <1>2, <1>3, <2>2, <3>1
  <2> QED BY <1>4, <2>1, <2>2
<1>5. ASSUME NEW u \in Users, g[u] # Absent
      PROVE  \E k \in rows \cup {h} : StandsFor(k, u) /\ k.max = g[u]
  <2>1. CASE u = h.user
    BY <1>1, <2>1 DEF StandsFor
  <2>2. CASE u # h.user
    BY <1>1, <1>5, <2>2 DEF HoldsMaxima
  <2> QED BY <2>1, <2>2
<1> QED BY <1>4, <1>5 DEF HoldsMaxima, g

LEMMA MarkedOne ==
  ASSUME NEW h \in Proved!HistoryRecord, NEW users
  PROVE  /\ Proved!Marked(h, users).user = h.user /\ Proved!Marked(h, users).max = h.max
         /\ Proved!Marked(h, users).banned <=> (h.banned \/ h.user \in users)
<1> DEFINE b == h.banned \/ h.user \in users
<1>1. Proved!Marked(h, users) = [h EXCEPT !.banned = b]
  BY DEF Proved!Marked
<1> HIDE DEF b
<1>2. [h EXCEPT !.banned = b].user = h.user /\ [h EXCEPT !.banned = b].max = h.max /\ [h EXCEPT !.banned = b].banned = b
  BY DEF Proved!HistoryRecord
<1> QED BY <1>1, <1>2 DEF b

LEMMA HoldsBan ==
  ASSUME NEW rows \in SUBSET Proved!HistoryRecord, NEW f \in [Users -> MaybeMoney], HoldsMaxima(rows, f),
         NEW t \in Users
  PROVE  HoldsMaxima({Proved!Marked(h, {t}) : h \in rows}, [f EXCEPT ![t] = Absent])
<1> DEFINE g == [f EXCEPT ![t] = Absent]
           marked == {Proved!Marked(h, {t}) : h \in rows}
<1>1. g[t] = Absent /\ \A v \in Users \ {t} : g[v] = f[v]
  OBVIOUS
<1>2. ASSUME NEW u \in Users, NEW k \in marked, StandsFor(k, u)
      PROVE  g[u] # Absent /\ k.max <= g[u]
  <2>1. PICK h \in rows : k = Proved!Marked(h, {t})
    OBVIOUS
  <2>2. h.user = u /\ ~h.banned /\ u # t /\ k.max = h.max
    BY <1>2, <2>1, MarkedOne DEF StandsFor
  <2> QED BY <1>1, <2>2 DEF HoldsMaxima, StandsFor
<1>3. ASSUME NEW u \in Users, g[u] # Absent
      PROVE  \E k \in marked : StandsFor(k, u) /\ k.max = g[u]
  <2>1. u # t /\ f[u] # Absent /\ g[u] = f[u]
    BY <1>1, <1>3
  <2>2. PICK h \in rows : StandsFor(h, u) /\ h.max = f[u]
    BY <2>1 DEF HoldsMaxima
  <2>3. StandsFor(Proved!Marked(h, {t}), u) /\ Proved!Marked(h, {t}).max = f[u]
    BY <2>1, <2>2, MarkedOne DEF StandsFor
  <2> QED BY <2>1, <2>3
<1> HIDE DEF g, marked
<1> QED BY <1>2, <1>3 DEF HoldsMaxima, g, marked

\* A ban of nobody marks nothing.
LEMMA MarkedNone ==
  ASSUME NEW rows \in SUBSET Proved!HistoryRecord
  PROVE  {Proved!Marked(h, {}) : h \in rows} = rows
<1>1. ASSUME NEW h \in Proved!HistoryRecord PROVE Proved!Marked(h, {}) = h
  <2>1. Proved!Marked(h, {}) = [h EXCEPT !.banned = h.banned]
    <3>1. h.banned \in BOOLEAN
      BY DEF Proved!HistoryRecord
    <3>2. (h.banned \/ h.user \in {}) = h.banned
      BY <3>1
    <3> QED BY <3>2 DEF Proved!Marked
  <2> QED BY <2>1 DEF Proved!HistoryRecord
<1> QED BY <1>1

-----------------------------------------------------------------------------
(* The authority next to a replay of its whole stream.                     *)

\* Only a close comes after the events the users are allowed.
Within ==
  /\ sequence <= MaxUserEvents + 1
  /\ status \notin Terminal => sequence <= MaxUserEvents

AuthorityInv == TypeOK /\ MoneyInv /\ HistoryInv /\ Within

\* The event last appended took the lead from the bidder it bans.
LeaderBanned ==
  /\ stream # <<>>
  /\ LET last == stream[Len(stream)]
     IN  last.op = "BAN" /\ last.target = last.leader /\ leaderId # last.leader

\* d holds what Redis holds, the leader and the price behind by a ban at most.
Mirrors(d) ==
  /\ d.bans = bans /\ d.status = status /\ d.endAt = endAt
  /\ IF ExpectedOrders = 1 THEN \E o : d.orders = {o} ELSE d.orders = {}
  /\ HoldsMaxima(d.history, maxima)
  /\ (d.price = currentPrice /\ d.leader = leaderId) \/ LeaderBanned

\* The rows once every event is projected.
Latest == Proved!Replayed[Len(stream)]

PipelineInv == AuthorityInv /\ Proved!ReplayInv /\ Mirrors(Latest)

LEMMA AuthorityEvents ==
  ASSUME AuthorityInv
  PROVE  Proved!EventsInv
<1>1. stream \in Seq(Event) /\ Len(stream) \in Nat
  BY DEF AuthorityInv, TypeOK
<1>2. Len(stream) <= MaxUserEvents + 1
  BY DEF AuthorityInv, HistoryInv, CountsEvents, Within
<1>3. \A i \in DOMAIN stream : stream[i].status \in Terminal => i = Len(stream)
  BY DEF AuthorityInv, HistoryInv, EndsOnce
<1> QED BY <1>1, <1>2, <1>3 DEF Proved!EventsInv, Proved!TerminalStatus, Terminal

LEMMA AuthorityEventsNext == (AuthorityInv => Proved!EventsInv)'
<1>1. AuthorityInv => Proved!EventsInv
  BY AuthorityEvents
<1> QED BY <1>1, PTL

LEMMA BookStays ==
  ASSUME UNCHANGED book, AuthorityInv, AuthorityInv'
  PROVE  /\ Proved!StreamGrows /\ Latest' = Latest
         /\ \A d : Mirrors(d)' = Mirrors(d)
<1>1. UNCHANGED <<status, currentPrice, leaderId, endAt, sequence, maxima, bans, stream>>
  BY DEF book, hash, standing
<1>2. Proved!EventsInv /\ Proved!EventsInv'
  BY AuthorityEvents, AuthorityEventsNext
<1>3. Len(stream) \in Nat /\ Proved!StreamGrows
  BY <1>1, <1>2 DEF Proved!EventsInv, Proved!StreamGrows
<1>4. Latest' = Latest
  BY <1>1, <1>2, <1>3, ProjectorAssumed, Proved!ReplayGrows DEF Latest
<1>5. ASSUME NEW d PROVE Mirrors(d)' = Mirrors(d)
  BY <1>1 DEF Mirrors, ExpectedOrders, LeaderBanned, HoldsMaxima
<1> QED BY <1>3, <1>4, <1>5

LEMMA AuthoritySteps ==
  ASSUME AuthorityInv, [Next]_vars
  PROVE  AuthorityInv'
<1>1. TypeOK' /\ MoneyInv' /\ HistoryInv'
  BY NextMoney, NextHistory DEF AuthorityInv
<1>2. sequence \in Nat /\ MaxUserEvents \in Nat
  BY LimitAssumption DEF AuthorityInv, TypeOK
<1>3. Within'
  <2>1. CASE \E e \in Event : Tells(e)
    BY <1>2, <2>1 DEF Tells, AuthorityInv, Within, Terminal
  <2>2. CASE UNCHANGED book
    BY <2>2 DEF book, hash, AuthorityInv, Within
  <2> QED BY <2>1, <2>2, StepTells DEF AuthorityInv, vars, book
<1> QED BY <1>1, <1>3 DEF AuthorityInv

LEMMA LatestIs ==
  ASSUME Proved!ReplayInv
  PROVE  /\ Latest \in Proved!DbRecord
         /\ db.seq = Len(stream) => db = Latest
BY ProjectorAssumed, Proved!WholeReplay DEF Latest

\* A replay of one event more mirrors what the event tells.
LEMMA EventMirrored ==
  ASSUME TypeOK, NEW e \in Event, Tells(e), NEW n \in Nat, stream' # <<>>, stream'[Len(stream')] = e,
         NEW d \in Proved!DbRecord, Mirrors(d), NEW x, Proved!HasEvent(x, d, e, n)
  PROVE  Mirrors(x)'
<1>1. /\ x.price = e.price /\ x.leader = e.leader /\ x.endAt = e.endAt /\ x.status = e.status
      /\ x.history = {Proved!Marked(h, Proved!BannedIn(e)) : h \in d.history} \cup Proved!BidIn(e, n)
      /\ x.bans = d.bans \cup Proved!BannedIn(e) /\ x.orders = d.orders \cup Proved!OrderIn(e, n)
  BY DEF Proved!HasEvent
<1>2. x.bans = bans' /\ x.status = status' /\ x.endAt = endAt'
  BY <1>1 DEF Mirrors, Tells, Proved!BannedIn
<1>3. IF ExpectedOrders' = 1 THEN \E o : x.orders = {o} ELSE x.orders = {}
  <2>1. d.orders = {}
    BY DEF Mirrors, Tells, ExpectedOrders
  <2>2. ExpectedOrders' = 1 <=> (status' = "SOLD" \/ (status' = "ENDED" /\ leaderId' # NoUser))
    BY DEF ExpectedOrders
  <2>3. (e.order /\ e.leader # Proved!NobodyLeads) <=> (status' = "SOLD" \/ (status' = "ENDED" /\ leaderId' # NoUser))
    BY DEF Tells, Proved!NobodyLeads
  <2>4. CASE e.order /\ e.leader # Proved!NobodyLeads
    <3>1. Proved!OrderIn(e, n) = {[seq |-> n, buyer |-> e.leader]}
      BY <2>4 DEF Proved!OrderIn
    <3> QED BY <1>1, <2>1, <2>2, <2>3, <2>4, <3>1
  <2>5. CASE ~(e.order /\ e.leader # Proved!NobodyLeads)
    <3>1. Proved!OrderIn(e, n) = {}
      BY <2>5 DEF Proved!OrderIn
    <3> QED BY <1>1, <2>1, <2>2, <2>3, <2>5, <3>1
  <2> QED BY <2>4, <2>5
<1>4. HoldsMaxima(x.history, maxima')
  <2>1. /\ d.history \in SUBSET Proved!HistoryRecord /\ maxima \in [Users -> MaybeMoney]
        /\ HoldsMaxima(d.history, maxima)
    BY DEF Proved!DbRecord, TypeOK, Mirrors
  <2>2. CASE e.op = "BID"
    <3> DEFINE h == [seq |-> n, user |-> e.actor, max |-> e.amount, banned |-> FALSE]
    <3>1. Proved!BannedIn(e) = {} /\ Proved!BidIn(e, n) = {h}
      BY <2>2 DEF Proved!BannedIn, Proved!BidIn
    <3>2. x.history = d.history \cup {h}
      BY <1>1, <2>1, <3>1, MarkedNone
    <3>3. /\ h.user = e.actor /\ h.max = e.amount /\ ~h.banned
          /\ e.actor \in Users /\ e.amount \in Money /\ e.amount > maxima[e.actor]
          /\ maxima' = [maxima EXCEPT ![e.actor] = e.amount]
      BY <2>2 DEF Tells
    <3> HIDE DEF h
    <3>4. HoldsMaxima(d.history \cup {h}, [maxima EXCEPT ![h.user] = h.max])
      BY <2>1, <3>3, HoldsBid
    <3> QED BY <3>2, <3>3, <3>4
  <2>3. CASE e.op = "BAN"
    <3>1. Proved!BannedIn(e) = {e.target} /\ Proved!BidIn(e, n) = {}
      BY <2>3 DEF Proved!BannedIn, Proved!BidIn
    <3>2. e.target \in Users /\ maxima' = [maxima EXCEPT ![e.target] = Absent]
      BY <2>3 DEF Tells
    <3>3. HoldsMaxima({Proved!Marked(h, {e.target}) : h \in d.history}, [maxima EXCEPT ![e.target] = Absent])
      BY <2>1, <3>2, HoldsBan
    <3> QED BY <1>1, <3>1, <3>2, <3>3
  <2>4. CASE e.op \notin {"BID", "BAN"}
    <3>1. Proved!BannedIn(e) = {} /\ Proved!BidIn(e, n) = {} /\ maxima' = maxima
      BY <2>4 DEF Proved!BannedIn, Proved!BidIn, Tells
    <3>2. x.history = d.history
      BY <1>1, <2>1, <3>1, MarkedNone
    <3> QED BY <2>1, <3>1, <3>2
  <2> QED BY <2>2, <2>3, <2>4
<1>5. (x.price = currentPrice' /\ x.leader = leaderId') \/ LeaderBanned'
  BY <1>1 DEF Tells, LeaderBanned
<1> QED BY <1>2, <1>3, <1>4, <1>5 DEF Mirrors, HoldsMaxima

LEMMA AuthorityMirrored ==
  ASSUME PipelineInv, Next, UNCHANGED projection
  PROVE  PipelineInv'
<1>1. AuthorityInv /\ AuthorityInv' /\ Proved!EventsInv /\ Proved!EventsInv'
  BY AuthoritySteps, AuthorityEvents, AuthorityEventsNext DEF PipelineInv
<1>2. TypeOK /\ MoneyInv /\ Proved!ReplayInv /\ Mirrors(Latest) /\ Latest \in Proved!DbRecord
  BY <1>1, LatestIs DEF PipelineInv, AuthorityInv
<1>3. UNCHANGED <<Proved!redis, worker, db, dbUp, faults>>
  BY DEF projection, Proved!redis
<1>4. CASE UNCHANGED book
  BY <1>1, <1>2, <1>3, <1>4, BookStays, ProjectorAssumed, Proved!ReplayGrowth DEF PipelineInv
<1>5. ASSUME NEW e \in Event, Tells(e) PROVE PipelineInv'
  <2>1. stream' = Append(stream, e)
    BY <1>5 DEF Tells
  <2>2. PICK n \in Nat : n = Len(stream)
    BY <1>2 DEF TypeOK
  <2>3. /\ Len(stream') = n + 1 /\ stream'[n + 1] = e /\ DOMAIN stream = 1..n /\ DOMAIN stream' = 1..(n + 1)
        /\ \A i \in 1..n : stream'[i] = stream[i]
    BY <1>2, <2>1, <2>2, AppendEvent
  <2>4. Proved!StreamGrows /\ stream' # <<>>
    BY <2>2, <2>3 DEF Proved!StreamGrows
  <2>5. PICK d \in Proved!DbRecord : d = Proved!Replayed[n] /\ Mirrors(d)
    BY <1>2, <2>2 DEF Latest
  <2>6. Proved!HasEvent(Proved!Replayed'[n + 1], d, stream'[n + 1], n + 1)
    BY <1>1, <2>2, <2>3, <2>4, <2>5, ProjectorAssumed, Proved!OneEventMore
  <2>7. PICK x : x = Proved!Replayed'[n + 1]
    OBVIOUS
  <2>8. Mirrors(x)'
    BY <1>2, <1>5, <2>3, <2>4, <2>5, <2>6, <2>7, EventMirrored
  <2>9. Mirrors(Latest)'
    BY <2>3, <2>7, <2>8 DEF Latest
  <2>10. Proved!ReplayInv'
    BY <1>1, <1>2, <1>3, <2>4, ProjectorAssumed, Proved!ReplayGrowth
  <2> QED BY <1>1, <2>9, <2>10 DEF PipelineInv
<1> QED BY <1>2, <1>4, <1>5, StepTells

LEMMA ProjectionMirrored ==
  ASSUME PipelineInv, Projection!Project, UNCHANGED vars
  PROVE  PipelineInv'
<1>1. AuthorityInv' /\ UNCHANGED book
  BY AuthoritySteps DEF PipelineInv, vars, book
<1>2. Proved!ReplayInv'
  BY SameProjection, ProjectorAssumed, Proved!ReplaySteps DEF PipelineInv
<1>3. PICK d : d = Latest
  OBVIOUS
<1>4. d = Latest' /\ Mirrors(d)'
  BY <1>1, <1>3, BookStays DEF PipelineInv
<1> QED BY <1>1, <1>2, <1>4 DEF PipelineInv, Mirrors, HoldsMaxima

LEMMA NothingMirrored ==
  ASSUME PipelineInv, UNCHANGED <<vars, projection>>
  PROVE  PipelineInv'
<1>1. AuthorityInv' /\ UNCHANGED book
  BY AuthoritySteps DEF PipelineInv, vars, book
<1>2. Proved!StreamGrows /\ Proved!EventsInv'
  BY <1>1, BookStays, AuthorityEventsNext DEF PipelineInv
<1>3. Proved!ReplayInv'
  BY <1>2, ProjectorAssumed, Proved!ReplayGrowth DEF PipelineInv, projection, Proved!redis
<1>4. PICK d : d = Latest
  OBVIOUS
<1>5. d = Latest' /\ Mirrors(d)'
  BY <1>1, <1>4, BookStays DEF PipelineInv
<1> QED BY <1>1, <1>3, <1>5 DEF PipelineInv, Mirrors, HoldsMaxima

\* What bootstrapRedisAuction installs is what the products row says.
LEMMA StartMirrored == PipelineInit => PipelineInv
<1> SUFFICES ASSUME PipelineInit PROVE PipelineInv
  OBVIOUS
<1>1. Init /\ stream = <<>> /\ Len(stream) = 0
  BY DEF PipelineInit, Init
<1>2. AuthorityInv
  BY <1>1, InitTypeOK, InitMoney, InitHistory, LimitAssumption DEF AuthorityInv, Within, Init
<1>3. Proved!EventsInv
  BY <1>2, AuthorityEvents
<1>4. Proved!InitProjection /\ faults \in Proved!FaultPlan
  BY SameStart DEF PipelineInit, Proved!FaultPlan
<1>5. Proved!ReplayInv
  BY <1>1, <1>3, <1>4, ProjectorAssumed, Proved!GroupStarts, Proved!RowsStart
<1>6. PICK d : d = Latest
  OBVIOUS
<1>7. d = db
  BY <1>1, <1>4, <1>5, <1>6, LatestIs DEF Proved!InitProjection, Proved!EmptyDb
<1>8. /\ d.bans = {} /\ d.status = IF StartAt = 0 THEN "ACTIVE" ELSE "PENDING"
      /\ d.endAt = EndAt /\ d.orders = {} /\ d.history = {}
      /\ d.price = StartPrice /\ d.leader = NoUser
  BY <1>4, <1>7 DEF Proved!InitProjection, Proved!EmptyDb, Proved!NobodyLeads
<1>9. HoldsMaxima(d.history, maxima)
  BY <1>1, <1>8 DEF HoldsMaxima, Init
<1>10. ExpectedOrders # 1
  BY <1>1 DEF ExpectedOrders, Init
<1>11. Mirrors(d)
  BY <1>1, <1>8, <1>9, <1>10 DEF Mirrors, Init
<1> QED BY <1>2, <1>5, <1>6, <1>11 DEF PipelineInv

\* Whatever the consumers do and whenever, a replay of the whole stream mirrors Redis.
LEMMA AlwaysMirrored == PipelineSpec => []PipelineInv
<1>1. PipelineInv /\ [PipelineNext]_<<vars, projection>> => PipelineInv'
  BY AuthorityMirrored, ProjectionMirrored, NothingMirrored DEF PipelineNext
<1> QED BY <1>1, StartMirrored, PTL DEF PipelineSpec

\* Once every event has reached PostgreSQL, its rows are those of that replay.
LEMMA CaughtUpMirrors ==
  ASSUME PipelineInv, CaughtUp
  PROVE  Mirrors(db) /\ db \in Proved!DbRecord
<1>1. db = Latest /\ db \in Proved!DbRecord
  BY LatestIs DEF PipelineInv, AuthorityInv, HistoryInv, CountsEvents, CaughtUp
<1>2. PICK d : d = Latest
  OBVIOUS
<1> QED BY <1>1, <1>2 DEF PipelineInv, Mirrors, HoldsMaxima

LEMMA HighestIs ==
  ASSUME NEW rows, NEW m \in Int, \A h \in rows : h.max \in Int /\ h.max <= m, NEW k \in rows, k.max = m
  PROVE  HighestOf(rows) = m
<1> DEFINE maxes == {h.max : h \in rows}
           Highest(x) == \A h \in rows : h.max <= x
<1>1. m \in maxes /\ Highest(m) /\ rows # {}
  OBVIOUS
<1>2. ASSUME NEW x \in maxes, Highest(x) PROVE x = m
  <2>1. x \in Int /\ x <= m /\ m <= x
    BY <1>2
  <2> QED BY <2>1
<1>3. (CHOOSE x \in maxes : Highest(x)) = m
  <2> HIDE DEF maxes, Highest
  <2> QED BY <1>1, <1>2
<1> QED BY <1>1, <1>3 DEF HighestOf

-----------------------------------------------------------------------------
(* What PostgreSQL knows. *)

\* Once every event is projected, price, end, status, leader and the number of
\* orders are those of Redis, unless the last event banned the leader: it tells
\* who led before (reconcileAuctionProjection, and BAN of auction-mutate.lua).
THEOREM DivergesOnlyWhenLeaderBanned == PipelineSpec => []DivergesOnlyAfterBan
<1>1. PipelineInv => DivergesOnlyAfterBan
  <2> SUFFICES ASSUME PipelineInv, CaughtUp, ~SameSnapshot PROVE LeaderBanned
    BY DEF DivergesOnlyAfterBan, LeaderBanned
  <2>1. Mirrors(db) /\ ExpectedOrders \in {0, 1}
    BY CaughtUpMirrors DEF ExpectedOrders
  <2>2. Cardinality(db.orders) = ExpectedOrders
    <3>1. CASE ExpectedOrders = 1
      BY <2>1, <3>1, FS_Singleton DEF Mirrors
    <3>2. CASE ExpectedOrders = 0
      BY <2>1, <3>2, FS_EmptySet DEF Mirrors
    <3> QED BY <2>1, <3>1, <3>2
  <2> QED BY <2>1, <2>2 DEF Mirrors, SameSnapshot
<1> QED BY <1>1, AlwaysMirrored, PTL

\* What a rebuild of the auction reads from the rows, once every event is projected,
\* are the standing maxima and the bans that Redis holds: no ban, counter-bid or
\* raise is lost or undone on the way (bootstrapRedisAuction).
THEOREM RebuildAlwaysKeepsStanding == PipelineSpec => []RebuildKeepsStanding
<1>1. PipelineInv => RebuildKeepsStanding
  <2> SUFFICES ASSUME PipelineInv, CaughtUp PROVE (\A u \in Users : SeedMaxima(u) = maxima[u]) /\ db.bans = bans
    BY DEF RebuildKeepsStanding
  <2>1. /\ HoldsMaxima(db.history, maxima) /\ db.bans = bans
        /\ db.history \in SUBSET Proved!HistoryRecord /\ maxima \in [Users -> MaybeMoney]
    BY CaughtUpMirrors DEF Mirrors, Proved!DbRecord, PipelineInv, AuthorityInv, TypeOK
  <2>2. ASSUME NEW u \in Users PROVE SeedMaxima(u) = maxima[u]
    <3> DEFINE rows == {h \in db.history : h.user = u /\ ~h.banned}
    <3>1. \A h \in rows : h.max \in Int /\ StandsFor(h, u) /\ h \in db.history
      BY <2>1 DEF Proved!HistoryRecord, StandsFor
    <3>2. maxima[u] \in Int
      BY <2>1 DEF MaybeMoney, Money
    <3>3. SeedMaxima(u) = HighestOf(rows)
      BY DEF SeedMaxima
    <3>4. CASE maxima[u] = Absent
      <4>1. rows = {}
        BY <2>1, <3>1, <3>4 DEF HoldsMaxima
      <4> QED BY <3>3, <3>4, <4>1 DEF HighestOf
    <3>5. CASE maxima[u] # Absent
      <4>1. PICK k \in rows : k.max = maxima[u]
        BY <2>1, <3>5 DEF HoldsMaxima, StandsFor
      <4>2. \A h \in rows : h.max <= maxima[u]
        BY <2>1, <3>1 DEF HoldsMaxima
      <4> HIDE DEF rows
      <4> QED BY <3>1, <3>2, <3>3, <4>1, <4>2, HighestIs
    <3> QED BY <3>4, <3>5
  <2> QED BY <2>1, <2>2
<1> QED BY <1>1, AlwaysMirrored, PTL
=============================================================================
