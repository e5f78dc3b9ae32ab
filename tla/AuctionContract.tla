-------------------------- MODULE AuctionContract --------------------------
(***************************************************************************)
(* What an auction promises, whatever carries it out: traders leave        *)
(* maximum offers, may be excluded, and the auction is settled once.  The  *)
(* winner is a trader whose offer nobody exceeds, at a price the winner    *)
(* agreed to and no losing offer could still raise.                        *)
(***************************************************************************)
EXTENDS Integers

CONSTANTS Users, Seller, MaxMoney, StartPrice, BuyNow

Absent == -1
NoUser == 0

VARIABLES offers,    \* standing maximum of each user, or Absent
          excluded,
          outcome

vars == <<offers, excluded, outcome>>

Outcome(kind, buyer, price) == [kind |-> kind, buyer |-> buyer, price |-> price]
Open == Outcome("open", NoUser, Absent)

Traders == Users \ (excluded \cup {Seller})

Init ==
  /\ offers = [u \in Users |-> Absent]
  /\ excluded = {}
  /\ outcome = Open

Offer(u, m) ==
  /\ outcome = Open /\ u \in Traders
  /\ m > offers[u] /\ m > StartPrice
  /\ offers' = [offers EXCEPT ![u] = m]
  /\ UNCHANGED <<excluded, outcome>>

Exclude(u) ==
  /\ outcome = Open /\ u \in Traders
  /\ excluded' = excluded \cup {u}
  /\ offers' = [offers EXCEPT ![u] = Absent]
  /\ UNCHANGED outcome

\* The highest offer wins, at least at the second highest.
Win(u, price) ==
  /\ outcome = Open /\ u \in Traders
  /\ StartPrice <= price /\ price <= offers[u]
  /\ \A v \in Users \ {u} : offers[v] <= price
  /\ outcome' = Outcome("won", u, price)
  /\ UNCHANGED <<offers, excluded>>

BuyOut(u) ==
  /\ outcome = Open /\ u \in Traders
  /\ BuyNow # Absent
  /\ outcome' = Outcome("bought", u, BuyNow)
  /\ UNCHANGED <<offers, excluded>>

Lapse ==
  /\ outcome = Open
  /\ \A u \in Users : offers[u] = Absent
  /\ outcome' = Outcome("unsold", NoUser, Absent)
  /\ UNCHANGED <<offers, excluded>>

Withdraw ==
  /\ outcome = Open
  /\ outcome' = Outcome("withdrawn", NoUser, Absent)
  /\ UNCHANGED <<offers, excluded>>

Next ==
  \/ \E u \in Users, m \in 1..MaxMoney : Offer(u, m)
  \/ \E u \in Users : Exclude(u)
  \/ \E u \in Users, p \in 1..MaxMoney : Win(u, p)
  \/ \E u \in Users : BuyOut(u)
  \/ Lapse
  \/ Withdraw

Spec == Init /\ [][Next]_vars
=============================================================================
