------------------------ MODULE MCAuctionAuthority ------------------------
(* Small instances of AuctionAuthority for TLC. *)
EXTENDS AuctionAuthority, TLC

CONSTANTS k1, k2

\* An auction without a buy-now price.
NoBuyNow == -1

\* Keys are interchangeable: nothing orders them.
KeySymmetry == Permutations(Keys)
=============================================================================
